---- MODULE Spec2Model ----
(***************************************************************************)
(* Verification model of agent-contracts: the contract status algebra of   *)
(* ContractChecker and the streaming certification pipeline               *)
(* (runtime_verification.main -> parse_span -> preprocess -> certify_span) *)
(* with its Redis certificate cache.                                       *)
(***************************************************************************)
EXTENDS Integers, Sequences, FiniteSets, TLC

\* ------------------------------------------------------------------------
\* Bounds
\* ------------------------------------------------------------------------
\* Largest number of requirements of a contract handed to ContractChecker.
MaxReqs == 3
\* Number of messages one consumer polls before the model stops it.
MaxPolls == 2
\* Largest number of spans of the span lists with free ids, parents and times.
MaxSpans == 3
\* Largest number of spans of the named span trees.
MaxNodes == 5
\* Largest number of states, and of actions of a state, handed to ExecutionPath.
MaxStates == 2
MaxActions == 2
\* Largest number of states, and of actions in all, of the execution path of
\* an NL check.
MaxSteps == 2
\* Number of judge responses one NL check may have rejected.
MaxRetries == 3

\* ------------------------------------------------------------------------
\* Requirement / Contract data model
\* ------------------------------------------------------------------------
Level == {"must", "should"}

ReqTypes == {"precondition", "pathcondition", "postcondition"}

None == "None"

\* Condition flags: a filter is the set of requirement types it selects.
Condition_ALL == {"precondition", "postcondition", "pathcondition"}

Condition_PATH_POST == {"pathcondition", "postcondition"}

matches(filter, req) == req.type \in filter

OfType(reqs, t) ==
  LET RECURSIVE Sel(_)
      Sel(i) == IF i > Len(reqs) THEN <<>>
                ELSE (IF reqs[i].type = t THEN <<reqs[i]>> ELSE <<>>) \o Sel(i + 1)
  IN Sel(1)

\* Faulty variant of Contract.__iter__: requirements are yielded in storage order.
Contract_iter_StorageOrder(reqs) == reqs

\* Faulty variant of Contract.__iter__: postconditions are yielded before
\* pathconditions.
Contract_iter_PostBeforePath(reqs) ==
  OfType(reqs, "precondition") \o OfType(reqs, "postcondition")
    \o OfType(reqs, "pathcondition")

\* Contract.__iter__: preconditions, then pathconditions, then postconditions,
\* each group in storage order.
Contract_iter(reqs) ==
  OfType(reqs, "precondition") \o OfType(reqs, "pathcondition")
    \o OfType(reqs, "postcondition")

\* zip(a, b): pairs up to the shorter of the two sequences.
zip(a, b) ==
  [i \in 1..(IF Len(a) < Len(b) THEN Len(a) ELSE Len(b)) |-> <<a[i], b[i]>>]

\* The VerificationResults a requirement's check returns.  The explanation the
\* judge writes is about the requirement that was checked; it is modelled by
\* that requirement's uuid.
VerificationResults(req, sat) == [satisfied |-> sat, explanation |-> req.uuid]

\* ContractChecker._compute_contract_status: the loop over
\* zip(contract, check_results) with its two early returns.
compute_contract_status(contract, check_results) ==
  LET pairs == zip(Contract_iter(contract), check_results)
      RECURSIVE Scan(_, _, _)
      Scan(i, preconditions, musts) ==
        IF i > Len(pairs) THEN "SATISFIED"
        ELSE LET req == pairs[i][1]
                 result == pairs[i][2]
             IN IF req.level = "should" THEN Scan(i + 1, preconditions, musts)
                ELSE LET p == IF req.type = "precondition"
                              THEN preconditions /\ result.satisfied
                              ELSE preconditions
                         m == IF req.type = "precondition"
                              THEN musts ELSE musts /\ result.satisfied
                     IN IF ~p THEN "INVALID"
                        ELSE IF ~m THEN "UNSATISFIED"
                        ELSE Scan(i + 1, p, m)
  IN Scan(1, TRUE, TRUE)

\* The dict comprehension {req.uuid: result for req, result in zip(...)}:
\* for a repeated key the last pair wins.
info_map(contract, check_results) ==
  LET pairs == zip(Contract_iter(contract), check_results)
      keys == {pairs[i][1].uuid : i \in 1..Len(pairs)}
      last(u) == CHOOSE i \in 1..Len(pairs) :
                   /\ pairs[i][1].uuid = u
                   /\ \A j \in 1..Len(pairs) : pairs[j][1].uuid = u => j <= i
  IN [u \in keys |-> pairs[last(u)][2]]

\* The requirements ContractChecker.check evaluates: those of the contract, in
\* iteration order, that the filter matches.
group(contract, filter) ==
  LET it == Contract_iter(contract)
      RECURSIVE Sel(_)
      Sel(i) == IF i > Len(it) THEN <<>>
                ELSE (IF matches(filter, it[i]) THEN <<it[i]>> ELSE <<>>) \o Sel(i + 1)
  IN Sel(1)

\* Faulty variant of the gather: once a MUST precondition is unsatisfied the
\* remaining requirements are not evaluated.
gather_StopAtGate(reqs, outcome) ==
  LET RECURSIVE G(_, _)
      G(i, open) ==
        IF i > Len(reqs) \/ ~open THEN <<>>
        ELSE <<VerificationResults(reqs[i], outcome[reqs[i].uuid] = "sat")>>
             \o G(i + 1, ~(/\ reqs[i].type = "precondition"
                           /\ reqs[i].level = "must"
                           /\ outcome[reqs[i].uuid] # "sat"))
  IN G(1, TRUE)

\* gather(*group): the results of the awaited checks, in the order of the group.
gather(reqs, outcome) ==
  [i \in 1..Len(reqs) |-> VerificationResults(reqs[i], outcome[reqs[i].uuid] = "sat")]

\* gather without return_exceptions: an exception of any awaited check (or of
\* prepare_requirement_input while the group is built) propagates.
raises(reqs, outcome) == \E i \in 1..Len(reqs) : outcome[reqs[i].uuid] = "raise"

\* The order in which n concurrently awaited checks complete when the one of
\* position `first` completes first: first, first + 1, ..., n, 1, ...
CompletionOrder(n, first) == [k \in 1..n |-> ((first + k - 2) % n) + 1]

\* tqdm's as_completed over the wrapped awaitables: the (position, result)
\* pairs in the order of completion.
as_completed(awaited, first) ==
  LET order == CompletionOrder(Len(awaited), first)
  IN [k \in 1..Len(awaited) |-> << order[k], awaited[order[k]] >>]

\* tqdm.gather(*group): res collects the pairs as they complete and the
\* value returned is [i for _, i in sorted(res)], the results by position.
tqdm_gather(awaited, first) ==
  LET res == as_completed(awaited, first)
  IN [i \in 1..Len(res) |-> res[CHOOSE k \in 1..Len(res) : res[k][1] = i][2]]

\* ContractChecker.check for the outcomes the requirement checks produce and
\* the check that completes first: either it raises, or it returns
\* ContractVerificationResults.
check(contract, filter, outcome, first) ==
  LET reqs == group(contract, filter)
  IN IF raises(reqs, outcome) THEN [raised |-> TRUE]
     ELSE LET check_results == tqdm_gather(gather(reqs, outcome), first)
          IN [raised |-> FALSE,
              satisfied |-> compute_contract_status(contract, check_results),
              info |-> info_map(contract, check_results)]

\* ------------------------------------------------------------------------
\* Trace ids: base64 text on the queue, hex text in the trace and the cache
\* ------------------------------------------------------------------------
B64Chars ==
  << "A","B","C","D","E","F","G","H","I","J","K","L","M","N","O","P",
     "Q","R","S","T","U","V","W","X","Y","Z","a","b","c","d","e","f",
     "g","h","i","j","k","l","m","n","o","p","q","r","s","t","u","v",
     "w","x","y","z","0","1","2","3","4","5","6","7","8","9","+","/" >>

HexChars ==
  << "0","1","2","3","4","5","6","7","8","9","a","b","c","d","e","f" >>

B64Val(c) == (CHOOSE i \in 1..64 : B64Chars[i] = c) - 1

IsB64Char(c) == \E i \in 1..64 : B64Chars[i] = c

\* Number of trailing "=" of a base64 text.
B64Pad(s) ==
  IF Len(s) >= 2 /\ s[Len(s)] = "=" /\ s[Len(s) - 1] = "=" THEN 2
  ELSE IF Len(s) >= 1 /\ s[Len(s)] = "=" THEN 1 ELSE 0

\* base64.b64decode accepts texts whose length is a multiple of four (after
\* padding); anything else raises binascii.Error.
b64decode_ok(s) ==
  /\ Len(s) % 4 = 0
  /\ \A i \in 1..(Len(s) - B64Pad(s)) : IsB64Char(s[i])

\* base64.b64decode: four characters carry three bytes; padding drops the
\* bytes it stands for.
b64decode(s) ==
  LET v(i) == IF s[i] = "=" THEN 0 ELSE B64Val(s[i])
      RECURSIVE Dec(_)
      Dec(i) ==
        IF i > Len(s) THEN <<>>
        ELSE LET n == v(i) * 262144 + v(i + 1) * 4096 + v(i + 2) * 64 + v(i + 3)
                 three == << n \div 65536, (n \div 256) % 256, n % 256 >>
                 keep == IF i + 3 = Len(s) THEN 3 - B64Pad(s) ELSE 3
             IN SubSeq(three, 1, keep) \o Dec(i + 4)
  IN Dec(1)

\* bytes.hex(): two lowercase hex digits per byte.
hex(bytes) ==
  LET RECURSIVE H(_)
      H(i) == IF i > Len(bytes) THEN <<>>
              ELSE << HexChars[(bytes[i] \div 16) + 1], HexChars[(bytes[i] % 16) + 1] >>
                   \o H(i + 1)
  IN H(1)

\* The queue carries the trace id as base64 text ("qw==" is the byte ab,
\* "AQI=" the bytes 01 02).
TID1 == << "q", "w", "=", "=" >>

TID2 == << "A", "Q", "I", "=" >>

\* Settings.key and Settings.ttl.
RuntimeVerificationConfig_key == "certificates"

RuntimeVerificationConfig_ttl == 600

\* f"{RuntimeVerificationConfig.key}:{id}"
cache_key(id) == << RuntimeVerificationConfig_key, ":" >> \o id

\* Faulty variant of SETEX: an existing key is left as it is (SET ... NX).
redis_setex_IfAbsent(c, k, ttl, v) ==
  IF k \in DOMAIN c THEN c
  ELSE [x \in (DOMAIN c) \cup {k} |-> IF x = k THEN [ttl |-> ttl, value |-> v] ELSE c[x]]

\* Faulty variant of SETEX: the value is stored without expiry (plain SET).
redis_setex_NoExpiry(c, k, ttl, v) ==
  [x \in (DOMAIN c) \cup {k} |-> IF x = k THEN [ttl |-> -1, value |-> v] ELSE c[x]]

\* redis SETEX / DEL on the certificate cache (a map from the keys present).
redis_setex(c, k, ttl, v) ==
  [x \in (DOMAIN c) \cup {k} |-> IF x = k THEN [ttl |-> ttl, value |-> v] ELSE c[x]]

redis_delete(c, k) == [x \in (DOMAIN c) \ {k} |-> c[x]]

\* ------------------------------------------------------------------------
\* Queue messages, parse_span and preprocess
\* ------------------------------------------------------------------------
\* A JSON object / MessageToDict result is a function from its keys; a field
\* that is absent is absent from the domain.
EmptyDict == [k \in {} |-> k]

\* Python's None where a dict is expected.
NoneDict == [None |-> TRUE]

\* Python truthiness of the parsed span_data: None and the empty object are
\* falsy.
truthy(d) == d # NoneDict /\ DOMAIN d # {}

\* The order in which _parse_otlp_proto tries the protobuf message types.
ProtoOrder ==
  << "traces", "resource_spans", "scope_spans", "span", "metrics", "logs" >>

\* _parse_otlp_proto: raw.proto maps each message type whose ParseFromString
\* accepts the payload to its MessageToDict result; the first accepted type in
\* ProtoOrder is returned, wrapped as the code wraps it.
parse_otlp_proto(raw) ==
  LET accepted == {i \in 1..Len(ProtoOrder) : ProtoOrder[i] \in DOMAIN raw.proto}
  IN IF accepted = {} THEN [raised |-> TRUE]
     ELSE LET i == CHOOSE a \in accepted : \A b \in accepted : a <= b
              t == ProtoOrder[i]
              m == raw.proto[t]
              data ==
                IF t = "resource_spans" THEN [resourceSpans |-> <<m>>]
                ELSE IF t = "scope_spans"
                  THEN [resourceSpans |-> << [scopeSpans |-> <<m>>] >>]
                ELSE IF t = "span"
                  THEN [resourceSpans |-> << [scopeSpans |-> << [spans |-> <<m>>] >>] >>]
                ELSE m
          IN [raised |-> FALSE, type |-> t, data |-> data]

\* parse_span: None for a null poll and for a broker error; JSON first, then
\* the protobuf shapes; None when nothing parses.
parse_span(msg) ==
  IF msg.kind = "none" THEN [span_data |-> NoneDict, format_type |-> None]
  ELSE IF msg.kind = "error" THEN [span_data |-> NoneDict, format_type |-> None]
  ELSE IF msg.value.is_json
    THEN [span_data |-> msg.value.json, format_type |-> "json"]
  ELSE LET result == parse_otlp_proto(msg.value)
       IN IF result.raised THEN [span_data |-> NoneDict, format_type |-> None]
          ELSE [span_data |-> result.data, format_type |-> "otlp_" \o result.type]

\* find_attribute over a dict with an "attributes" list: the first entry with
\* the key, None when there is none; an empty dict gives None; a non-empty
\* dict without "attributes" raises ValueError("Invalid trace type").
find_attribute_raises(trace) == DOMAIN trace # {} /\ "attributes" \notin DOMAIN trace

find_attribute(trace, key) ==
  IF DOMAIN trace = {} THEN NoneDict
  ELSE LET tags == trace.attributes
           hits == {i \in 1..Len(tags) : tags[i].key = key}
       IN IF hits = {} THEN NoneDict
          ELSE tags[CHOOSE i \in hits : \A j \in hits : i <= j]

\* get_attribute_value for string attributes: the stringValue of the tag found.
get_attribute_value(trace, key) ==
  LET tag == find_attribute(trace, key)
  IN IF tag = NoneDict THEN None ELSE tag.value.stringValue

\* The spans preprocess reaches, in order: those of the resources whose
\* service.name is "relari-otel".
preprocess_spans(span_data) ==
  LET rs == span_data.resourceSpans
      \* span["resource"] = ...; span["attributes"].append(otel.scope.name)
      enrich(span, r, sc) ==
        [k \in (DOMAIN span) \cup {"resource"} |->
           IF k = "resource" THEN r.resource
           ELSE IF k = "attributes"
             THEN Append(span.attributes,
                         [key |-> "otel.scope.name", value |-> sc.scope.name])
           ELSE span[k]]
      RECURSIVE InScope(_, _, _)
      InScope(r, scopes, i) ==
        IF i > Len(scopes) THEN <<>>
        ELSE [k \in 1..Len(scopes[i].spans) |-> enrich(scopes[i].spans[k], r, scopes[i])]
             \o InScope(r, scopes, i + 1)
      RECURSIVE InRes(_)
      InRes(i) ==
        IF i > Len(rs) THEN <<>>
        ELSE (IF get_attribute_value(rs[i].resource, "service.name") = "relari-otel"
              THEN InScope(rs[i], rs[i].scopeSpans, 1) ELSE <<>>) \o InRes(i + 1)
  IN InRes(1)

\* The subscripts of preprocess that raise KeyError (or ValueError from
\* find_attribute) on the parsed data.
preprocess_raises(span_data) ==
  \/ "resourceSpans" \notin DOMAIN span_data
  \/ \E i \in 1..Len(span_data.resourceSpans) :
       LET r == span_data.resourceSpans[i]
       IN \/ "resource" \notin DOMAIN r
          \/ find_attribute_raises(r.resource)
          \/ /\ get_attribute_value(r.resource, "service.name") = "relari-otel"
             /\ \/ "scopeSpans" \notin DOMAIN r
                \/ \E j \in 1..Len(r.scopeSpans) :
                     LET sc == r.scopeSpans[j]
                     IN \/ "spans" \notin DOMAIN sc
                        \/ \E k \in 1..Len(sc.spans) :
                             \/ "attributes" \notin DOMAIN sc.spans[k]
                             \/ "scope" \notin DOMAIN sc
                             \/ "traceId" \notin DOMAIN sc.spans[k]

\* Faulty variant of preprocess: the spans are not grouped, all are filed
\* under the trace id of the first.
preprocess_OneGroup(span_data) ==
  IF preprocess_raises(span_data) THEN [raised |-> TRUE]
  ELSE LET spans == preprocess_spans(span_data)
       IN [raised |-> FALSE,
           spans_by_trace_id |->
             IF spans = << >> THEN << >>
             ELSE << [trace_id |-> spans[1].traceId, spans |-> spans] >>]

\* preprocess: spans grouped by traceId, the groups in order of first
\* occurrence (dict insertion order), as a sequence of <<trace_id, spans>>.
preprocess(span_data) ==
  IF preprocess_raises(span_data) THEN [raised |-> TRUE]
  ELSE LET spans == preprocess_spans(span_data)
           firsts == {i \in 1..Len(spans) :
                        \A j \in 1..(i - 1) : spans[j].traceId # spans[i].traceId}
           of(tid) ==
             LET RECURSIVE Sel(_)
                 Sel(i) == IF i > Len(spans) THEN <<>>
                           ELSE (IF spans[i].traceId = tid THEN <<spans[i]>> ELSE <<>>)
                                \o Sel(i + 1)
             IN Sel(1)
           RECURSIVE Groups(_)
           Groups(i) ==
             IF i > Len(spans) THEN <<>>
             ELSE (IF i \in firsts
                   THEN << [trace_id |-> spans[i].traceId, spans |-> of(spans[i].traceId)] >>
                   ELSE <<>>) \o Groups(i + 1)
       IN [raised |-> FALSE, spans_by_trace_id |-> Groups(1)]

\* Concrete queue contents.  A span's `wellformed` field stands for whether
\* Trace(...) and ExecutionPath.from_trace accept the span list it is part of.
SpanOf(tid, wf) == [traceId |-> tid, attributes |-> <<>>, wellformed |-> wf]

ServiceAttr(name) ==
  [attributes |-> << [key |-> "service.name", value |-> [stringValue |-> name]] >>]

ResourceOf(service, spans) ==
  [resource |-> ServiceAttr(service),
   scopeSpans |-> << [scope |-> [name |-> "langchain"], spans |-> spans] >>]

\* A payload: whether it decodes as UTF-8 JSON and to what, and what each
\* protobuf message type makes of it.
JsonMsg(d) == [kind |-> "value", value |-> [is_json |-> TRUE, json |-> d, proto |-> EmptyDict]]

ProtoMsg(p) == [kind |-> "value", value |-> [is_json |-> FALSE, json |-> NoneDict, proto |-> p]]

MsgNull == [kind |-> "none"]

MsgBrokerError == [kind |-> "error"]

\* One trace, well formed.
MsgBatch1 == JsonMsg([resourceSpans |-> << ResourceOf("relari-otel", << SpanOf(TID1, TRUE) >>) >>])

\* Two traces in one batch; the first cannot be built into a tree.
MsgBatchBad ==
  JsonMsg([resourceSpans |->
    << ResourceOf("relari-otel", << SpanOf(TID2, FALSE), SpanOf(TID1, TRUE) >>) >>])

\* A batch of another service: nothing to certify.
MsgOtherService == JsonMsg([resourceSpans |-> << ResourceOf("other", << SpanOf(TID2, TRUE) >>) >>])

\* Valid JSON that is not a span batch.
MsgJsonOther == JsonMsg([foo |-> 1])

MsgJsonEmpty == JsonMsg(EmptyDict)

\* Protobuf payloads: a full traces payload, a bare scope-spans payload, a
\* metrics payload, and bytes that no message type accepts.
MsgProtoTraces ==
  ProtoMsg([traces |-> [resourceSpans |-> << ResourceOf("relari-otel", << SpanOf(TID1, TRUE) >>) >>],
            metrics |-> EmptyDict, logs |-> EmptyDict])

MsgProtoScopeSpans ==
  ProtoMsg([scope_spans |-> [scope |-> [name |-> "langchain"], spans |-> << SpanOf(TID1, TRUE) >>],
            span |-> [name |-> "s"]])

MsgProtoMetrics ==
  ProtoMsg([metrics |-> [resourceMetrics |-> << [schemaUrl |-> "m"] >>], logs |-> EmptyDict])

MsgGarbage == ProtoMsg(EmptyDict)

\* ------------------------------------------------------------------------
\* The loaded specification (Specifications.load): immutable, process-wide
\* ------------------------------------------------------------------------
Req(uuid, type, level) == [uuid |-> uuid, type |-> type, level |-> level]

\* One scenario with two contracts; requirement storage order differs from
\* iteration order in the first.
specification ==
  << [uuid |-> "con-A",
      requirements |-> << Req(1, "postcondition", "must"),
                          Req(5, "precondition", "should"),
                          Req(2, "precondition", "must") >>],
     [uuid |-> "con-B",
      requirements |-> << Req(3, "precondition", "must"),
                          Req(4, "pathcondition", "must") >>] >>

ContractByUuid(u) ==
  specification[CHOOSE i \in 1..Len(specification) : specification[i].uuid = u]

\* The outcomes of one requirement check: a VerificationResults that is
\* satisfied or not, or an exception (transport retries exhausted, a failing
\* prepare_requirement_input, ...).
Outcomes == {"sat", "unsat", "raise"}

\* Faulty variant of must_preconditions: SHOULD preconditions gate too.
must_preconditions_AnyLevel(contract) == OfType(contract.requirements, "precondition")

\* contract.preconditions filtered by `req.level == Level.MUST`: the
\* requirements _active_contracts evaluates for the gate.
must_preconditions(contract) ==
  LET pre == OfType(contract.requirements, "precondition")
      RECURSIVE Sel(_)
      Sel(i) == IF i > Len(pre) THEN <<>>
                ELSE (IF pre[i].level = "must" THEN <<pre[i]>> ELSE <<>>) \o Sel(i + 1)
  IN Sel(1)

\* Faulty variant of the gate: every contract is active.
is_active_Always(preconditions) == TRUE

\* active = all(p.satisfied for p in preconditions)
is_active(preconditions) ==
  \A i \in 1..Len(preconditions) : preconditions[i].satisfied

Uuids(reqs) == {reqs[i].uuid : i \in 1..Len(reqs)}

\* The requirements _check_contracts evaluates for a list of active contracts.
verify_group(active) ==
  UNION {Uuids(group(ContractByUuid(active[i]).requirements, Condition_PATH_POST)) :
           i \in 1..Len(active)}

\* r.model_dump(exclude_unset=True, exclude_none=True) of a VerificationResults
\* built with satisfied and explanation.
model_dump(r) == [satisfied |-> r.satisfied, explanation |-> r.explanation]

\* The certificate certify_span serializes: contract id -> {"requirements":
\* {rid: dumped result}} over the results of _check_contracts.
certificate(results) ==
  [cid \in DOMAIN results |->
     [requirements |->
        [rid \in DOMAIN results[cid].info |-> model_dump(results[cid].info[rid])]]]

\* ------------------------------------------------------------------------
\* Trace: the span tree (Trace._build, Trace._analyze, Trace._find_root)
\* ------------------------------------------------------------------------
\* Span ids of raw spans; the i-th raw span of an enumerated list draws its id
\* from here.
SpanIds == <<"a", "b", "c", "d", "e", "f", "g">>

\* A parentSpanID that no span of the list carries.
MissingId == "zz"

\* The span id _generate_span_id draws for a virtual root (16 random hex
\* digits): an id no raw span carries.
VirtualId == "virtual"

\* A raw span as kafka2trace hands it to Trace.
RawSpan(id, parent, name, start, end) ==
  [spanID |-> id, parentSpanID |-> parent, name |-> name,
   startTime |-> start, endTime |-> end]

\* sorted(trace_data, key=lambda x: x["startTime"]): a stable sort.
RECURSIVE sorted(_)
sorted(trace_data) ==
  IF trace_data = <<>> THEN <<>>
  ELSE LET x == Head(trace_data)
           rest == sorted(Tail(trace_data))
           Before(y) == y.startTime < x.startTime
           NotBefore(y) == ~Before(y)
       IN SelectSeq(rest, Before) \o <<x>> \o SelectSeq(rest, NotBefore)

\* Keys of the dict comprehension {span["spanID"]: Span(...) for span in spans}:
\* each id once, at the position of its first occurrence.
dict_keys(spans) ==
  LET First(i) == \A j \in 1..(i - 1) : spans[j].spanID # spans[i].spanID
      idx == SelectSeq([i \in 1..Len(spans) |-> i], First)
  IN [k \in 1..Len(idx) |-> spans[idx[k]].spanID]

\* Span(...): the node built from a raw span.
Span(span_id, name, start_time, end_time) ==
  [span_id |-> span_id, name |-> name,
   start_time |-> start_time, end_time |-> end_time]

\* Values of the same dict comprehension: for a repeated id the Span built from
\* the last raw span with that id replaces the earlier ones.
dict_values(spans) ==
  LET ids == {spans[i].spanID : i \in 1..Len(spans)}
      last(id) == CHOOSE i \in 1..Len(spans) :
                    /\ spans[i].spanID = id
                    /\ \A j \in 1..Len(spans) : spans[j].spanID = id => j <= i
  IN [id \in ids |-> Span(id, spans[last(id)].name,
                          spans[last(id)].startTime, spans[last(id)].endTime)]

\* NodeMixin.iter_path_reverse: a node and its ancestors.
RECURSIVE iter_path_reverse(_, _)
iter_path_reverse(parent, n) ==
  IF parent[n] = None THEN {n}
  ELSE {n} \cup iter_path_reverse(parent, parent[n])

RemoveFrom(s, x) ==
  LET Keep(y) == y # x
  IN SelectSeq(s, Keep)

\* NodeMixin.parent setter (node.parent = value): nothing if the parent is
\* unchanged, LoopError if the new parent is the node or one of its
\* descendants, else detach from the old parent's children and append to the
\* new parent's children.
set_parent(t, c, p) ==
  IF t.parent[c] = p THEN t
  ELSE IF p = c \/ c \in iter_path_reverse(t.parent, p)
  THEN [t EXCEPT !.raised = TRUE]
  ELSE LET old == t.parent[c]
           detached == IF old = None THEN t.children
                       ELSE [t.children EXCEPT ![old] = RemoveFrom(@, c)]
       IN [t EXCEPT !.parent[c] = p,
                    !.children = [detached EXCEPT ![p] = Append(@, c)]]

\* Faulty variant of the parent lookup: a parentSpanID that names no span of
\* the list is an error.
link_MissingParentIsError(t, span) ==
  IF t.raised THEN t
  ELSE IF span.parentSpanID = None THEN t
  ELSE IF span.parentSpanID \notin DOMAIN t.span THEN [t EXCEPT !.raised = TRUE]
  ELSE set_parent(t, span.spanID, span.parentSpanID)

\* One iteration of the linking loop of Trace._build:
\* `if parent_span_id and parent_span_id in nodes`.
link(t, span) ==
  IF t.raised THEN t
  ELSE IF span.parentSpanID # None /\ span.parentSpanID \in DOMAIN t.span
  THEN set_parent(t, span.spanID, span.parentSpanID)
  ELSE t

\* is_root of every node, in the order of nodes.values().
roots_of(t) ==
  LET IsRoot(id) == t.parent[id] = None
  IN SelectSeq(t.keys, IsRoot)

\* Trace._build: sort, build the nodes, link them, return the roots.
Trace_build(trace_data) ==
  LET spans == sorted(trace_data)
      nodes == dict_values(spans)
      t0 == [raised |-> FALSE, keys |-> dict_keys(spans), span |-> nodes,
             parent |-> [id \in DOMAIN nodes |-> None],
             children |-> [id \in DOMAIN nodes |-> <<>>]]
      RECURSIVE Loop(_, _)
      Loop(t, i) == IF i > Len(spans) THEN t ELSE Loop(link(t, spans[i]), i + 1)
  IN Loop(t0, 1)

Min(S) == CHOOSE x \in S : \A y \in S : x <= y

Max(S) == CHOOSE x \in S : \A y \in S : y <= x

\* Faulty variant of Trace._find_root: the virtual root takes its end from the
\* first root.
find_root_EndOfFirst(t) ==
  LET roots == roots_of(t)
  IN IF Len(roots) > 1
     THEN LET new_root == Span(VirtualId, "root",
                               Min({t.span[roots[i]].start_time : i \in 1..Len(roots)}),
                               t.span[roots[1]].end_time)
          IN [raised |-> FALSE, keys |-> t.keys, root |-> VirtualId,
              span |-> (VirtualId :> new_root) @@ t.span,
              parent |-> (VirtualId :> None) @@
                         [id \in DOMAIN t.span |->
                            IF t.parent[id] = None THEN VirtualId ELSE t.parent[id]],
              children |-> (VirtualId :> roots) @@ t.children]
     ELSE IF Len(roots) = 0 THEN [raised |-> TRUE, exc |-> "IndexError"]
     ELSE [raised |-> FALSE, keys |-> t.keys, root |-> roots[1], span |-> t.span,
           parent |-> t.parent, children |-> t.children]

\* Trace._find_root: the only root, or a new Span named "root" from the
\* earliest start to the latest end of the roots, with the roots as children.
find_root(t) ==
  LET roots == roots_of(t)
  IN IF Len(roots) > 1
     THEN LET new_root == Span(VirtualId, "root",
                               Min({t.span[roots[i]].start_time : i \in 1..Len(roots)}),
                               Max({t.span[roots[i]].end_time : i \in 1..Len(roots)}))
          IN [raised |-> FALSE, keys |-> t.keys, root |-> VirtualId,
              span |-> (VirtualId :> new_root) @@ t.span,
              parent |-> (VirtualId :> None) @@
                         [id \in DOMAIN t.span |->
                            IF t.parent[id] = None THEN VirtualId ELSE t.parent[id]],
              children |-> (VirtualId :> roots) @@ t.children]
     ELSE IF Len(roots) = 0 THEN [raised |-> TRUE, exc |-> "IndexError"]
     ELSE [raised |-> FALSE, keys |-> t.keys, root |-> roots[1], span |-> t.span,
           parent |-> t.parent, children |-> t.children]

\* Trace(trace_id, trace): _build, then _analyze (whose min() over the raw
\* spans raises ValueError on an empty list), then _find_root.
Trace(trace_data) ==
  LET t == Trace_build(trace_data)
  IN IF t.raised THEN [raised |-> TRUE, exc |-> "LoopError"]
     ELSE IF trace_data = <<>> THEN [raised |-> TRUE, exc |-> "ValueError"]
     ELSE find_root(t)

\* ------------------------------------------------------------------------
\* ExecutionPath: extraction from a Trace and construction
\* ------------------------------------------------------------------------
\* langchain.IGNORED_NODES.
IGNORED_NODES ==
  {"__start__", "__end__", "_write", "RunnableSequence", "ChatPromptTemplate",
   "PydanticToolsParser", "StateModifier", "call_model", "Unnamed",
   "should_continue", "Prompt"}

should_include_node(t, n) == t.span[n].name \notin IGNORED_NODES

\* PreOrderIter(n): n, then the subtrees of its children in children order.
RECURSIVE PreOrderIter(_, _)
PreOrderIter(t, n) ==
  LET ch == t.children[n]
      RECURSIVE Sub(_)
      Sub(i) == IF i > Len(ch) THEN <<>>
                ELSE PreOrderIter(t, ch[i]) \o Sub(i + 1)
  IN <<n>> \o Sub(1)

\* NodeMixin.descendants: the pre-order of the subtree without the node.
descendants(t, n) == Tail(PreOrderIter(t, n))

\* An action dict / Action of the execution path.
Action(t, n) == [spanId |-> n, name |-> t.span[n].name]

\* Faulty variant of get_all_leaves: every included descendant is an action,
\* leaf or not.
get_all_leaves_AnyDescendant(t, span) ==
  LET Included(d) == should_include_node(t, d)
      ds == SelectSeq(descendants(t, span), Included)
  IN [i \in 1..Len(ds) |-> Action(t, ds[i])]

\* get_all_leaves: the descendants that are included and have no children.
get_all_leaves(t, span) ==
  LET Leaf(d) == should_include_node(t, d) /\ t.children[d] = <<>>
      ds == SelectSeq(descendants(t, span), Leaf)
  IN [i \in 1..Len(ds) |-> Action(t, ds[i])]

\* Faulty variant of langgraph_nodes: every child of the root counts, whatever
\* its name.
langgraph_nodes_AnyName(t) == t.children[t.root]

\* The children of the root named "LangGraph".
langgraph_nodes(t) ==
  LET IsLangGraph(n) == t.span[n].name = "LangGraph"
  IN SelectSeq(t.children[t.root], IsLangGraph)

\* The spans for which exec_path_from_trace builds a state dict, with the
\* number of their LangGraph node: the included children of the LangGraph
\* nodes, in loop order.
state_candidates(t) ==
  LET lg == langgraph_nodes(t)
      RECURSIVE Turn(_)
      Turn(turn_num) ==
        IF turn_num > Len(lg) THEN <<>>
        ELSE LET Included(n) == should_include_node(t, n)
                 ch == SelectSeq(t.children[lg[turn_num]], Included)
             IN [i \in 1..Len(ch) |-> [state_span |-> ch[i], turn_num |-> turn_num]]
                  \o Turn(turn_num + 1)
  IN Turn(1)

\* The state dict built for state_span under the turn_num-th LangGraph node;
\* turn is 0 when the name gets no " (turn N)" suffix.
StateOf(t, state_span, turn_num, add_turn_numbers) ==
  [spanId |-> state_span, name |-> t.span[state_span].name,
   turn |-> IF add_turn_numbers THEN turn_num ELSE 0,
   actions |-> get_all_leaves(t, state_span)]

\* langchain.exec_path_from_trace: the state dicts of the candidates that have
\* at least one action, in loop order.
exec_path_from_trace(t) ==
  LET add_turn_numbers == Len(langgraph_nodes(t)) > 1
      cands == state_candidates(t)
      states == [i \in 1..Len(cands) |->
                   StateOf(t, cands[i].state_span, cands[i].turn_num, add_turn_numbers)]
      HasActions(state) == state.actions # <<>>
  IN SelectSeq(states, HasActions)

\* frameworks.parse_trace: the langchain parser for every framework.
parse_trace(t) == exec_path_from_trace(t)

\* Faulty variant of span_ids: only the ids of the states are checked.
span_ids_StatesOnly(states) == [i \in 1..Len(states) |-> states[i].spanId]

\* The list model_post_init checks: the ids of the states, then the ids of
\* the actions of every state.
span_ids(states) ==
  LET RECURSIVE Acts(_)
      Acts(i) == IF i > Len(states) THEN <<>>
                 ELSE [k \in 1..Len(states[i].actions) |-> states[i].actions[k].spanId]
                        \o Acts(i + 1)
  IN [i \in 1..Len(states) |-> states[i].spanId] \o Acts(1)

\* len(set(span_ids)) == len(span_ids).
all_distinct(ids) == Cardinality({ids[i] : i \in 1..Len(ids)}) = Len(ids)

\* ExecutionPath(trace_id=..., states=...): model_post_init raises ValueError
\* on a repeated span id.
ExecutionPath(states) ==
  IF all_distinct(span_ids(states))
  THEN [raised |-> FALSE, states |-> states]
  ELSE [raised |-> TRUE, exc |-> "ValueError"]

\* ExecutionPath.from_trace: parse, construct, fill (fill looks every id up in
\* the tree it came from and changes no id).
from_trace(t) == ExecutionPath(parse_trace(t))

\* ------------------------------------------------------------------------
\* NLRequirementChecker: the judge protocol of MultiStagePathcondition.check
\* ------------------------------------------------------------------------
\* state_schema texts a judge may return to INIT: an empty object, text that
\* is no JSON, an array, an object with one key.
SchemaTexts == {"{}", "oops", "[1]", "{\"k\": 0}"}

\* result texts a judge may return to STEP: an object with the schema's key,
\* an empty object, an array that holds the schema's key as an element.
StepTexts == {"{\"k\": 1}", "{}", "[\"k\"]"}

\* json_repair.loads on these texts: the parsed object or array; the empty
\* string for text with nothing to repair.  A parsed value is its Python type
\* with its keys (dict), its string elements (list) and its length.
json_loads(text) ==
  CASE text = "{}" -> [type |-> "dict", keys |-> {}, items |-> {}, len |-> 0]
    [] text = "oops" -> [type |-> "str", keys |-> {}, items |-> {}, len |-> 0]
    [] text = "[1]" -> [type |-> "list", keys |-> {}, items |-> {}, len |-> 1]
    [] text = "[\"k\"]" -> [type |-> "list", keys |-> {}, items |-> {"k"}, len |-> 1]
    [] text = "{\"k\": 0}" -> [type |-> "dict", keys |-> {"k"}, items |-> {}, len |-> 1]
    [] text = "{\"k\": 1}" -> [type |-> "dict", keys |-> {"k"}, items |-> {}, len |-> 1]

\* Truth value of a parsed value (`if parsed_schema:`): not empty.
py_bool(v) == v.len > 0

\* The acceptance test of the INIT loop: `if parsed_schema: valid = True`.
init_valid(parsed_schema) == py_bool(parsed_schema)

\* The acceptance test of the STEP loop:
\* all(key in parsed_result for key in self.schema.keys()); only a dict has
\* keys(), and `in` looks a key up among the keys of a dict and among the
\* elements of a list.
step_valid_raises(schema) == schema.type # "dict"

step_valid(schema, parsed_result) ==
  \A key \in schema.keys :
    IF parsed_result.type = "dict" THEN key \in parsed_result.keys
    ELSE key \in parsed_result.items

\* StepResult(result=parsed_result, ...): the field is declared `result: Dict`
\* and the model's validation raises for a value that is no dict.
StepResult_raises(parsed_result) == parsed_result.type # "dict"

\* Faulty variant of self.updates.append(update): the new update replaces the
\* history.
updates_append_Replace(updates, update) == << update >>

\* self.updates.append(update).
updates_append(updates, update) == Append(updates, update)

\* The (state, action) positions of an execution path in the order
\* `for state in exec_path.states: for action in state.actions` visits them;
\* shape[s] is the number of actions of the s-th state.
Positions(shape) ==
  LET RECURSIVE Of(_)
      Of(s) == IF s > Len(shape) THEN <<>>
               ELSE [a \in 1..shape[s] |-> <<s, a>>] \o Of(s + 1)
  IN Of(1)

\* Faulty variant of step_ctx: every step starts from the INIT schema.
step_ctx_Schema(updates, schema) == schema

\* ctx = self.updates[-1].result if self.updates else self.schema: the running
\* state a STEP prompt is rendered with, and the judge call it came from.
step_ctx(updates, schema) ==
  IF updates # << >>
  THEN [from |-> updates[Len(updates)].from, value |-> updates[Len(updates)].result]
  ELSE schema

\* Faulty variant of update_early_termination: the configuration is not
\* consulted.
update_early_termination_IgnoreConfig(config_early_termination, result_early_termination) ==
  result_early_termination

\* StepResult.early_termination:
\* self.config.early_termination and result.early_termination.
update_early_termination(config_early_termination, result_early_termination) ==
  config_early_termination /\ result_early_termination

\* ------------------------------------------------------------------------
\* State
\* ------------------------------------------------------------------------
\* The consumer processes of the group (each runs runtime_verification.main).
Consumers == {"c1", "c2"}

VARIABLES
  ck,           \* one call of ContractChecker.check: its arguments and result
  topic,        \* the messages the Kafka topic can deliver (at least once)
  cache,        \* the Redis certificate cache: key -> [ttl, value]
  last_writer,  \* per cache key, the consumer whose SETEX was the latest
  main,         \* per consumer: position of main's loop, polls made, the
                \* traces of the current batch still to certify, the
                \* exception that ended the loop
  cert,         \* per consumer: the running certify_span call
  tr,           \* one construction of a Trace and its execution path
  ep,           \* one construction of an ExecutionPath from given states
  nl,           \* one run of MultiStagePathcondition.check
  cp,           \* the judge completion calls of one validation loop
  reg,          \* the RequirementRegistry and one serialization round trip
  at,           \* one call of an attribute decoding helper
  an            \* one run of Trace._analyze

vars == << ck, topic, cache, last_writer, main, cert, tr, ep, nl, cp, reg, at, an >>

\* The single-call variables of the utilities.
utilVars == << cp, reg, at, an >>

\* The single-call variables of the components below the pipeline.
auxVars == << tr, ep, nl, utilVars >>

TrOff == [pc |-> "off"]

EpOff == [pc |-> "off"]

NlOff == [pc |-> "off"]

CpOff == [pc |-> "off"]

RegOff == [pc |-> "off"]

AtOff == [pc |-> "off"]

AnOff == [pc |-> "off"]

UtilOff == cp = CpOff /\ reg = RegOff /\ at = AtOff /\ an = AnOff

AuxOff == tr = TrOff /\ ep = EpOff /\ nl = NlOff /\ UtilOff

pipeVars == << topic, cache, last_writer, main, cert >>

IdleCert ==
  [pc |-> "idle", active |-> <<>>, gi |-> 0, preconditions |-> EmptyDict,
   checked |-> {}, payload |-> EmptyDict, overlapped |-> {}]

InFlight == {"gate", "write_empty", "delete", "check", "write"}

\* The trace certify_span is called with: the head of the batch.
cur(p) == Head(main[p].batch)

\* exec_path.trace_id: the hex text of the decoded queue trace id
\* (hex_trace_id, passed through kafka2trace and ExecutionPath.from_trace).
exec_path_trace_id(trace_id) == hex(b64decode(trace_id))

\* The key certify_span deletes: built from the queue's trace_id.
delete_key(trace_id) == cache_key(trace_id)

\* The key certify_span writes: built from exec_path.trace_id.
write_key(trace_id) == cache_key(exec_path_trace_id(trace_id))

\* ------------------------------------------------------------------------
\* ContractChecker.check as a single call (pure function of its inputs)
\* ------------------------------------------------------------------------
Contracts(n) ==
  UNION {[1..k -> ReqTypes \X Level] : k \in 0..n}

MkContract(f) == [i \in 1..Len(f) |-> Req(i, f[i][1], f[i][2])]

CkOff == [pc |-> "off"]

CkInit ==
  ck \in {[pc |-> "init", contract |-> MkContract(f), filter |-> fl] :
            f \in Contracts(MaxReqs), fl \in {Condition_ALL, Condition_PATH_POST}}

\* checker.check(exec_path, contract, filter=...) with some outcome of each
\* requirement's check and some one of the gathered checks completing first.
CkCheck ==
  /\ ck.pc = "init"
  /\ \E outcome \in [Uuids(ck.contract) -> Outcomes] :
       \E first \in 1..Max({1, Len(group(ck.contract, ck.filter))}) :
         ck' = [pc |-> "done", contract |-> ck.contract, filter |-> ck.filter,
                outcome |-> outcome, first |-> first,
                res |-> check(ck.contract, ck.filter, outcome, first)]
  /\ UNCHANGED << pipeVars, auxVars >>

\* ------------------------------------------------------------------------
\* runtime_verification.main: the consumer loop
\* ------------------------------------------------------------------------
\* An exception that reaches main leaves the `while True` loop: only
\* KeyboardInterrupt is caught, `finally` closes the consumer.
Crash(p, where) ==
  main' = [main EXCEPT ![p].pc = "crashed", ![p].exc = where]

\* One iteration of the loop up to the first certify_span call: poll,
\* parse_span, `if span_data`, preprocess.
Poll(p) ==
  /\ main[p].pc = "poll"
  /\ main[p].polls < MaxPolls
  /\ \E msg \in topic :
       LET parsed == parse_span(msg)
           polled == [main EXCEPT ![p].polls = @ + 1]
       IN IF ~truthy(parsed.span_data)
          THEN main' = polled /\ UNCHANGED cert
          ELSE LET pre == preprocess(parsed.span_data)
               IN IF pre.raised
                  THEN /\ main' = [polled EXCEPT ![p].pc = "crashed",
                                                 ![p].exc = "preprocess"]
                       /\ UNCHANGED cert
                  ELSE IF pre.spans_by_trace_id = <<>>
                  THEN main' = polled /\ UNCHANGED cert
                  ELSE /\ main' = [polled EXCEPT ![p].pc = "certify",
                                                 ![p].batch = pre.spans_by_trace_id]
                       /\ cert' = [cert EXCEPT ![p] = [IdleCert EXCEPT !.pc = "start"]]
  /\ UNCHANGED << ck, auxVars, topic, cache, last_writer >>

\* ------------------------------------------------------------------------
\* workers.certify_span, one step per await / Redis command
\* ------------------------------------------------------------------------
\* Lines 105-108: decode the trace id, build the Trace and the ExecutionPath.
Start(p) ==
  /\ main[p].pc = "certify"
  /\ cert[p].pc = "start"
  /\ LET t == cur(p)
         buildable == /\ b64decode_ok(t.trace_id)
                      /\ \A i \in 1..Len(t.spans) : t.spans[i].wellformed
     IN IF ~buildable
        THEN Crash(p, "build") /\ cert' = [cert EXCEPT ![p].pc = "raised"]
        ELSE /\ cert' = [cert EXCEPT ![p] =
                  [IdleCert EXCEPT !.pc = "gate", !.gi = 1,
                     !.overlapped = {q \in Consumers \ {p} :
                                       /\ cert[q].pc \in InFlight
                                       /\ cur(q).trace_id = t.trace_id}]]
             /\ UNCHANGED main
  /\ UNCHANGED << ck, auxVars, topic, cache, last_writer >>

\* _active_contracts, one contract of the loop: gather the checks of its MUST
\* preconditions, append the contract when all are satisfied.  After the last
\* contract, `if not active_contracts` picks the branch.
Gate(p) ==
  /\ main[p].pc = "certify"
  /\ cert[p].pc = "gate"
  /\ LET contract == specification[cert[p].gi]
         reqs == must_preconditions(contract)
     IN \E outcome \in [Uuids(reqs) -> Outcomes] :
          LET seen == [u \in (DOMAIN cert[p].preconditions) \cup Uuids(reqs) |->
                         IF u \in Uuids(reqs) THEN outcome[u]
                         ELSE cert[p].preconditions[u]]
          IN IF raises(reqs, outcome)
             THEN /\ Crash(p, "gate")
                  /\ cert' = [cert EXCEPT ![p].pc = "raised",
                                          ![p].preconditions = seen]
             ELSE LET preconditions == gather(reqs, outcome)
                      active == IF is_active(preconditions)
                                THEN Append(cert[p].active, contract.uuid)
                                ELSE cert[p].active
                  IN /\ cert' = [cert EXCEPT
                           ![p].preconditions = seen,
                           ![p].active = active,
                           ![p].gi = IF @ < Len(specification) THEN @ + 1 ELSE @,
                           ![p].pc = IF cert[p].gi < Len(specification) THEN "gate"
                                     ELSE IF active = <<>> THEN "write_empty"
                                     ELSE "delete"]
                     /\ UNCHANGED main
  /\ UNCHANGED << ck, auxVars, topic, cache, last_writer >>

\* Lines 110-117: no active contract, the empty certificate is written.
WriteEmpty(p) ==
  /\ main[p].pc = "certify"
  /\ cert[p].pc = "write_empty"
  /\ cache' = redis_setex(cache, write_key(cur(p).trace_id),
                          RuntimeVerificationConfig_ttl, EmptyDict)
  /\ last_writer' = [k \in (DOMAIN last_writer) \cup {write_key(cur(p).trace_id)} |->
                       IF k = write_key(cur(p).trace_id) THEN p ELSE last_writer[k]]
  /\ cert' = [cert EXCEPT ![p].pc = "done", ![p].payload = EmptyDict]
  /\ UNCHANGED << ck, auxVars, topic, main >>

\* Line 120: "Delete previous results, we are going to update it soon".
Delete(p) ==
  /\ main[p].pc = "certify"
  /\ cert[p].pc = "delete"
  /\ cache' = redis_delete(cache, delete_key(cur(p).trace_id))
  /\ cert' = [cert EXCEPT ![p].pc = "check"]
  /\ UNCHANGED << ck, auxVars, topic, last_writer, main >>

\* Lines 121-132: _check_contracts gathers checker.check(..., filter =
\* PATHCONDITIONS | POSTCONDITIONS) over the active contracts; the payload is
\* built from the results.  The checks of a contract are taken to complete in
\* order of position (tqdm_gather returns the same list for every order).
Check(p) ==
  /\ main[p].pc = "certify"
  /\ cert[p].pc = "check"
  /\ LET active == cert[p].active
         cids == {active[i] : i \in 1..Len(active)}
     IN \E outcome \in [verify_group(active) -> Outcomes] :
          LET results == [cid \in cids |->
                            check(ContractByUuid(cid).requirements,
                                  Condition_PATH_POST, outcome, 1)]
          IN IF \E cid \in cids : results[cid].raised
             THEN /\ Crash(p, "check")
                  /\ cert' = [cert EXCEPT ![p].pc = "raised",
                                          ![p].checked = verify_group(active)]
             ELSE /\ cert' = [cert EXCEPT ![p].pc = "write",
                                          ![p].checked = verify_group(active),
                                          ![p].payload = certificate(results)]
                  /\ UNCHANGED main
  /\ UNCHANGED << ck, auxVars, topic, cache, last_writer >>

\* Lines 134-138: the certificate is written with the TTL.
Write(p) ==
  /\ main[p].pc = "certify"
  /\ cert[p].pc = "write"
  /\ cache' = redis_setex(cache, write_key(cur(p).trace_id),
                          RuntimeVerificationConfig_ttl, cert[p].payload)
  /\ last_writer' = [k \in (DOMAIN last_writer) \cup {write_key(cur(p).trace_id)} |->
                       IF k = write_key(cur(p).trace_id) THEN p ELSE last_writer[k]]
  /\ cert' = [cert EXCEPT ![p].pc = "done"]
  /\ UNCHANGED << ck, auxVars, topic, main >>

\* certify_span returns; main goes on with the next trace of the batch, or
\* polls again.
Return(p) ==
  /\ main[p].pc = "certify"
  /\ cert[p].pc = "done"
  /\ IF Len(main[p].batch) > 1
     THEN /\ main' = [main EXCEPT ![p].batch = Tail(@)]
          /\ cert' = [cert EXCEPT ![p] = [IdleCert EXCEPT !.pc = "start"]]
     ELSE /\ main' = [main EXCEPT ![p].batch = <<>>, ![p].pc = "poll"]
          /\ cert' = [cert EXCEPT ![p] = IdleCert]
  /\ UNCHANGED << ck, auxVars, topic, cache, last_writer >>

\* Redis drops a key whose TTL has elapsed; a key stored without a TTL (-1)
\* never expires.
Expire ==
  /\ \E k \in DOMAIN cache :
       /\ cache[k].ttl > 0
       /\ cache' = redis_delete(cache, k)
  /\ UNCHANGED << ck, auxVars, topic, last_writer, main, cert >>

\* ------------------------------------------------------------------------
\* Specifications
\* ------------------------------------------------------------------------
MainInit(running) ==
  main = [p \in Consumers |->
            [pc |-> IF p \in running THEN "poll" ELSE "stopped",
             polls |-> 0, batch |-> <<>>, exc |-> None]]

PipeInit(messages, running) ==
  /\ topic = messages
  /\ cache = EmptyDict
  /\ last_writer = EmptyDict
  /\ MainInit(running)
  /\ cert = [p \in Consumers |-> IdleCert]

\* The pipeline: two consumers of the group, a topic of span batches.
Init ==
  /\ ck = CkOff
  /\ AuxOff
  /\ PipeInit({MsgBatch1, MsgBatchBad, MsgBrokerError}, Consumers)

Next ==
  \/ \E p \in Consumers : Poll(p)
  \/ \E p \in Consumers : Start(p)
  \/ \E p \in Consumers : Gate(p)
  \/ \E p \in Consumers : WriteEmpty(p)
  \/ \E p \in Consumers : Delete(p)
  \/ \E p \in Consumers : Check(p)
  \/ \E p \in Consumers : Write(p)
  \/ \E p \in Consumers : Return(p)
  \/ Expire

Spec == Init /\ [][Next]_vars

\* One consumer, every kind of message.
InitParse ==
  /\ ck = CkOff
  /\ AuxOff
  /\ PipeInit({MsgNull, MsgBrokerError, MsgBatch1, MsgBatchBad, MsgOtherService,
               MsgJsonOther, MsgJsonEmpty, MsgProtoTraces, MsgProtoScopeSpans,
               MsgProtoMetrics, MsgGarbage}, {"c1"})

SpecParse == InitParse /\ [][Next]_vars

\* ------------------------------------------------------------------------
\* One consumer and a trace whose spans arrive in two messages
\* ------------------------------------------------------------------------
\* A well-formed span with an id of its own.
SpanWithId(tid, id) == [traceId |-> tid, spanId |-> id, attributes |-> <<>>, wellformed |-> TRUE]

\* The first message: span a of trace TID1 and span c of trace TID2.
MsgPart1 ==
  JsonMsg([resourceSpans |->
    << ResourceOf("relari-otel", << SpanWithId(TID1, "a"), SpanWithId(TID2, "c") >>) >>])

\* The second message: span b of trace TID1.
MsgPart2 ==
  JsonMsg([resourceSpans |-> << ResourceOf("relari-otel", << SpanWithId(TID1, "b") >>) >>])

\* main run by one process on a topic that holds the two messages.
InitSplit ==
  /\ ck = CkOff
  /\ AuxOff
  /\ PipeInit({MsgPart1, MsgPart2}, {"c1"})

SpecSplit == InitSplit /\ [][Next]_vars

\* ContractChecker.check on every contract of up to MaxReqs requirements.
InitChecker == CkInit /\ AuxOff /\ PipeInit({}, {})

NextChecker == CkCheck

SpecChecker == InitChecker /\ [][NextChecker]_vars

\* ------------------------------------------------------------------------
\* Trace(...) and ExecutionPath.from_trace(trace) on enumerated span lists
\* ------------------------------------------------------------------------
\* A span list of n spans with distinct ids, in any arrival order of start
\* times: f gives each span its parent (none, an id no span carries, or the id
\* of a span of the list, its own included), its start and its end.
ParentChoices(n) == {None, MissingId} \cup {SpanIds[j] : j \in 1..n}

SpanListUnique(n, f) ==
  [i \in 1..n |-> RawSpan(SpanIds[i], f[i][1], "agent", f[i][2], f[i][3])]

\* A span list in which span ids repeat: f gives each span one of two ids, its
\* parent and its start; the name tells the spans apart.
SpanListRepeated(n, f) ==
  [i \in 1..n |-> RawSpan(f[i][1], f[i][2], SpanIds[i], f[i][3], 2)]

\* Names of the spans of the named trees: the graph node, an ignored name and
\* a name that is not ignored.
NodeNames == {"LangGraph", "_write", "agent"}

\* Parent vectors of trees of n spans in start order: each span is the child
\* of an earlier one; the second span may be a second root.
RECURSIVE ParentVectors(_)
ParentVectors(n) ==
  IF n = 0 THEN {<<>>}
  ELSE {Append(v, p) :
          v \in ParentVectors(n - 1),
          p \in (IF n <= 2 THEN {None} ELSE {}) \cup {SpanIds[j] : j \in 1..(n - 1)}}

\* The span list of a tree with the given parent vector and names.
SpanListNamed(n, parents, names) ==
  [i \in 1..n |-> RawSpan(SpanIds[i], parents[i], names[i], i, i + 1)]

InitTrace ==
  /\ \/ \E n \in 0..MaxSpans :
          \E f \in [1..n -> ParentChoices(n) \X {0, 1} \X {2, 3}] :
            tr = [pc |-> "spans", trace_data |-> SpanListUnique(n, f)]
     \/ \E n \in 1..MaxSpans :
          \E f \in [1..n -> {"a", "b"} \X {None, "a", "b"} \X {0, 1}] :
            tr = [pc |-> "spans", trace_data |-> SpanListRepeated(n, f)]
     \/ \E n \in 1..MaxNodes :
          \E parents \in ParentVectors(n), names \in [1..n -> NodeNames] :
            tr = [pc |-> "spans", trace_data |-> SpanListNamed(n, parents, names)]
  /\ ck = CkOff
  /\ ep = EpOff
  /\ nl = NlOff
  /\ UtilOff
  /\ PipeInit({}, {})

\* trace = Trace(trace_id, spans): the tree, or the exception of its
\* construction.
Trace_init ==
  /\ tr.pc = "spans"
  /\ tr' = [pc |-> "trace", trace_data |-> tr.trace_data,
            trace |-> Trace(tr.trace_data)]
  /\ UNCHANGED << ck, ep, nl, utilVars, pipeVars >>

\* exec_path = ExecutionPath.from_trace(trace), reached only when Trace(...)
\* returned.
ExecutionPath_from_trace ==
  /\ tr.pc = "trace"
  /\ ~tr.trace.raised
  /\ tr' = [pc |-> "path", trace_data |-> tr.trace_data, trace |-> tr.trace,
            exec_path |-> from_trace(tr.trace)]
  /\ UNCHANGED << ck, ep, nl, utilVars, pipeVars >>

NextTrace == Trace_init \/ ExecutionPath_from_trace

SpecTrace == InitTrace /\ [][NextTrace]_vars

\* ------------------------------------------------------------------------
\* ExecutionPath(trace_id=..., states=...) on enumerated state lists
\* ------------------------------------------------------------------------
\* Span ids of the enumerated states and actions.
PathIds == {"a", "b", "c"}

\* The actions an enumerated state may hold.
PathActions == {[spanId |-> a, name |-> "tool"] : a \in PathIds}

\* The enumerated states: any id, up to max_actions actions with any ids.
PathStates(max_actions) ==
  {[spanId |-> s, name |-> "agent", turn |-> 0, actions |-> acts] :
     s \in PathIds,
     acts \in UNION {[1..k -> PathActions] : k \in 0..max_actions}}

InitExecPath ==
  /\ \E k \in 0..MaxStates :
       \E states \in [1..k -> PathStates(MaxActions)] :
         ep = [pc |-> "states", states |-> states]
  /\ ck = CkOff
  /\ tr = TrOff
  /\ nl = NlOff
  /\ UtilOff
  /\ PipeInit({}, {})

\* ExecutionPath(trace_id=..., states=states): the instance, or the ValueError
\* of model_post_init.
ExecutionPath_init ==
  /\ ep.pc = "states"
  /\ ep' = [pc |-> "built", states |-> ep.states, res |-> ExecutionPath(ep.states)]
  /\ UNCHANGED << ck, tr, nl, utilVars, pipeVars >>

NextExecPath == ExecutionPath_init

SpecExecPath == InitExecPath /\ [][NextExecPath]_vars

\* ------------------------------------------------------------------------
\* MultiStagePathcondition.check: one NL check, one judge call per step
\* ------------------------------------------------------------------------
\* Execution paths of up to MaxSteps states with up to MaxSteps actions in
\* all, given by the number of actions of each state.
RECURSIVE SumSeq(_)
SumSeq(s) == IF s = <<>> THEN 0 ELSE Head(s) + SumSeq(Tail(s))

PathShapes(max) ==
  {shape \in UNION {[1..k -> 0..max] : k \in 0..max} : SumSeq(shape) <= max}

\* checker = NLRequirementChecker(requirement) on an execution path, before
\* the first judge call.
InitNL ==
  /\ nl \in {[pc |-> "init", shape |-> shape, config_early_termination |-> c,
              pos |-> 0, calls |-> <<>>, rejected |-> 0,
              schema |-> NoneDict, instructions |-> NoneDict,
              success_condition |-> NoneDict, updates |-> <<>>] :
               shape \in PathShapes(MaxSteps), c \in BOOLEAN}
  /\ ck = CkOff
  /\ tr = TrOff
  /\ ep = EpOff
  /\ UtilOff
  /\ PipeInit({}, {})

\* An exception leaves check: the RetryError of _completion after its six
\* attempts, or an error of the code around the call.
NL_raised(calls, exc) ==
  nl' = [pc |-> "raised", exc |-> exc, shape |-> nl.shape,
         config_early_termination |-> nl.config_early_termination,
         pos |-> nl.pos, calls |-> calls, rejected |-> nl.rejected,
         schema |-> nl.schema, instructions |-> nl.instructions,
         success_condition |-> nl.success_condition, updates |-> nl.updates]

\* Where check goes after the update of position pos (0: after init): the
\* next action, or verify when the loops are over or broken.
NL_after(pos, early_termination) ==
  IF early_termination \/ pos >= Len(Positions(nl.shape)) THEN "verify" ELSE "step"

\* One pass of the `while not valid` loop of init: the INIT judge call and
\* the test of its state_schema; on acceptance init returns and check enters
\* its loops.
NL_init ==
  /\ nl.pc = "init"
  /\ \/ NL_raised(nl.calls, "RetryError")
     \/ \E text \in SchemaTexts, instructions \in {"", "update k"} :
          LET n == Len(nl.calls) + 1
              parsed_schema == json_loads(text)
              valid == init_valid(parsed_schema)
              call == [phase |-> "INIT", n |-> n, text |-> text, accepted |-> valid]
          IN IF valid
             THEN nl' = [nl EXCEPT !.calls = Append(@, call),
                                   !.schema = [from |-> n, value |-> parsed_schema],
                                   !.instructions = [from |-> n, value |-> instructions],
                                   !.success_condition = [from |-> n],
                                   !.pc = NL_after(0, FALSE)]
             ELSE /\ nl.rejected < MaxRetries
                  /\ nl' = [nl EXCEPT !.calls = Append(@, call),
                                      !.rejected = @ + 1]
  /\ UNCHANGED << ck, tr, ep, utilVars, pipeVars >>

\* checker.step(state, action) up to the return of one judge call: the guard
\* on schema and instructions, one pass of the `while not valid` loop, and on
\* acceptance the update, its early-termination flag and the loop control of
\* check.
NL_step ==
  /\ nl.pc = "step"
  /\ LET pos == nl.pos + 1
         span == Positions(nl.shape)[pos]
     IN IF ~py_bool(nl.schema.value) \/ nl.instructions.value = ""
        THEN NL_raised(nl.calls, "RuntimeError")
        ELSE \/ NL_raised(nl.calls, "RetryError")
             \/ \E text \in StepTexts, early \in BOOLEAN :
                  LET n == Len(nl.calls) + 1
                      parsed_result == json_loads(text)
                      no_keys == step_valid_raises(nl.schema.value)
                      valid == ~no_keys /\ step_valid(nl.schema.value, parsed_result)
                      appended == valid /\ ~StepResult_raises(parsed_result)
                      call == [phase |-> "STEP", n |-> n, accepted |-> appended,
                               text |-> text,
                               span |-> span, early_termination |-> appended /\ early,
                               schema |-> step_ctx(nl.updates, nl.schema)]
                      update == [span_id |-> span, from |-> n, result |-> parsed_result,
                                 early_termination |->
                                   update_early_termination(
                                     nl.config_early_termination, early)]
                  IN IF no_keys THEN NL_raised(Append(nl.calls, call), "AttributeError")
                     ELSE IF valid /\ StepResult_raises(parsed_result)
                     THEN NL_raised(Append(nl.calls, call), "ValidationError")
                     ELSE IF valid
                     THEN nl' = [nl EXCEPT
                                   !.calls = Append(@, call),
                                   !.updates = updates_append(@, update),
                                   !.pos = pos,
                                   !.pc = NL_after(pos, update.early_termination)]
                     ELSE /\ nl.rejected < MaxRetries
                          /\ nl' = [nl EXCEPT !.calls = Append(@, call),
                                              !.rejected = @ + 1]
  /\ UNCHANGED << ck, tr, ep, utilVars, pipeVars >>

\* checker.verify(): the VERIFY judge call and the VerificationResults built
\* from its answer.
NL_verify ==
  /\ nl.pc = "verify"
  /\ \/ NL_raised(nl.calls, "RetryError")
     \/ \E satisfied \in BOOLEAN :
          LET n == Len(nl.calls) + 1
              call == [phase |-> "VERIFY", n |-> n, satisfied |-> satisfied,
                       explanation |-> n]
          IN nl' = [pc |-> "done", shape |-> nl.shape,
                    config_early_termination |-> nl.config_early_termination,
                    pos |-> nl.pos, calls |-> Append(nl.calls, call),
                    rejected |-> nl.rejected, schema |-> nl.schema,
                    instructions |-> nl.instructions,
                    success_condition |-> nl.success_condition,
                    updates |-> nl.updates,
                    result |-> [satisfied |-> call.satisfied,
                                explanation |-> call.explanation,
                                info |-> [updates |-> nl.updates,
                                          step_update_instruction |-> nl.instructions,
                                          step_success_condition |->
                                            nl.success_condition]]]
  /\ UNCHANGED << ck, tr, ep, utilVars, pipeVars >>

NextNL == NL_init \/ NL_step \/ NL_verify

SpecNL == InitNL /\ [][NextNL]_vars

\* The same check when the event loop keeps running it: check is one
\* coroutine awaited to completion (contract_checker.py gathers it), so a
\* judge call that can return does return and the code after it runs.
SpecNLLive == InitNL /\ [][NextNL]_vars /\ WF_vars(NextNL)

\* ------------------------------------------------------------------------
\* The judge completion call and its retry policy
\* ------------------------------------------------------------------------
\* The completion calls one validation loop may make.
MaxCalls == 3

\* stop_after_attempt(6): the attempt after which _completion stops retrying.
max_attempt_number == 6

\* Faulty variant of stop_after_attempt: one more attempt is allowed.
stop_after_attempt_Exceeded(attempt_number) ==
  attempt_number > max_attempt_number

\* The stop condition of the retry decorator, evaluated after a failed
\* attempt: TRUE raises RetryError, FALSE waits and attempts again.
stop_after_attempt(attempt_number) ==
  attempt_number >= max_attempt_number

NoResponse == [call |-> 0, attempt |-> 0]

CpInit ==
  cp = [pc |-> "loop", call |-> 0, attempt_number |-> 0, log |-> <<>>,
        response |-> NoResponse]

InitCompletion ==
  /\ CpInit
  /\ ck = CkOff
  /\ tr = TrOff
  /\ ep = EpOff
  /\ nl = NlOff
  /\ reg = RegOff
  /\ at = AtOff
  /\ an = AnOff
  /\ PipeInit({}, {})

\* `await self._completion(...)` in a `while not valid` loop: the decorator
\* starts a new retry state, whose attempt number is 1.
Completion_call ==
  /\ cp.pc = "loop"
  /\ cp.call < MaxCalls
  /\ cp' = [cp EXCEPT !.pc = "attempt", !.call = @ + 1, !.attempt_number = 1]
  /\ UNCHANGED << ck, tr, ep, nl, reg, at, an, pipeVars >>

\* An attempt whose request returns: _completion returns its parsed message.
Completion_attempt_ok ==
  /\ cp.pc = "attempt"
  /\ cp' = [cp EXCEPT
              !.pc = "returned",
              !.log = Append(@, [call |-> cp.call, attempt |-> cp.attempt_number,
                                 ok |-> TRUE]),
              !.response = [call |-> cp.call, attempt |-> cp.attempt_number]]
  /\ UNCHANGED << ck, tr, ep, nl, reg, at, an, pipeVars >>

\* An attempt whose request raises: the decorator stops with RetryError or
\* waits and attempts again with the next attempt number.
Completion_attempt_fail ==
  /\ cp.pc = "attempt"
  /\ cp' = [cp EXCEPT
              !.pc = IF stop_after_attempt(cp.attempt_number)
                     THEN "raised" ELSE "attempt",
              !.attempt_number = IF stop_after_attempt(cp.attempt_number)
                                 THEN @ ELSE @ + 1,
              !.log = Append(@, [call |-> cp.call, attempt |-> cp.attempt_number,
                                 ok |-> FALSE])]
  /\ UNCHANGED << ck, tr, ep, nl, reg, at, an, pipeVars >>

\* The test of the `while not valid` loop on a returned response: accepted,
\* or rejected and requested again.
Completion_validate ==
  /\ cp.pc = "returned"
  /\ \E valid \in BOOLEAN :
       cp' = [cp EXCEPT !.pc = IF valid THEN "accepted" ELSE "loop"]
  /\ UNCHANGED << ck, tr, ep, nl, reg, at, an, pipeVars >>

NextCompletion ==
  \/ Completion_call
  \/ Completion_attempt_ok
  \/ Completion_attempt_fail
  \/ Completion_validate

SpecCompletion == InitCompletion /\ [][NextCompletion]_vars

\* ------------------------------------------------------------------------
\* RequirementRegistry
\* ------------------------------------------------------------------------
\* The calls of register and get in one run.
MaxRegistrations == 3

\* The names register does not store.
BaseClassNames == {"BasePrecondition", "BasePathcondition", "BasePostcondition"}

\* Class objects: __name__ and the identity of the object (two classes
\* defined in different modules can have the same __name__).
Classes ==
  [name : BaseClassNames \cup {"Precondition", "Postcondition"}, id : 1..2]

\* Faulty variant of register: a registered name is bound again.
register_Rebind(registry, subclass) ==
  LET cname == subclass.name
  IN IF cname \in BaseClassNames
     THEN [raised |-> FALSE, exc |-> None, registry |-> registry]
     ELSE [raised |-> FALSE, exc |-> None,
           registry |-> [t \in DOMAIN registry \cup {cname} |->
                           IF t = cname THEN subclass ELSE registry[t]]]

\* RequirementRegistry.register(subclass): the outcome and the _registry after
\* the call.
register(registry, subclass) ==
  LET cname == subclass.name
  IN IF cname \in BaseClassNames
     THEN [raised |-> FALSE, exc |-> None, registry |-> registry]
     ELSE IF cname \in DOMAIN registry
     THEN [raised |-> TRUE, exc |-> "RuntimeError", registry |-> registry]
     ELSE [raised |-> FALSE, exc |-> None,
           registry |-> [t \in DOMAIN registry \cup {cname} |->
                           IF t = cname THEN subclass ELSE registry[t]]]

\* RequirementRegistry.get(req_type).
get(registry, req_type) ==
  IF req_type \notin DOMAIN registry
  THEN [raised |-> TRUE, exc |-> "ValueError"]
  ELSE [raised |-> FALSE, exc |-> None, class |-> registry[req_type]]

\* _registry = {} at the definition of RequirementRegistry.
InitRegistry ==
  /\ reg = [pc |-> "run", registry |-> << >>, registered |-> << >>,
            last |-> [op |-> "none"]]
  /\ ck = CkOff
  /\ tr = TrOff
  /\ ep = EpOff
  /\ nl = NlOff
  /\ cp = CpOff
  /\ at = AtOff
  /\ an = AnOff
  /\ PipeInit({}, {})

\* __init_subclass__ of a class statement: RequirementRegistry.register(cls).
\* `registered` lists the classes register was called with, `last` keeps the
\* call, the _registry before it and its outcome.
Registry_register ==
  /\ reg.pc = "run"
  /\ Len(reg.registered) < MaxRegistrations
  /\ \E subclass \in Classes :
       LET r == register(reg.registry, subclass)
       IN reg' = [reg EXCEPT
                    !.registry = r.registry,
                    !.registered = Append(@, subclass),
                    !.last = [op |-> "register", arg |-> subclass,
                              before |-> reg.registry,
                              raised |-> r.raised, exc |-> r.exc]]
  /\ UNCHANGED << ck, tr, ep, nl, cp, at, an, pipeVars >>

\* RequirementRegistry.get(req_type) of _deserialize_requirements.
Registry_get ==
  /\ reg.pc = "run"
  /\ \E req_type \in {c.name : c \in Classes} :
       reg' = [reg EXCEPT
                 !.last = [op |-> "get", arg |-> req_type,
                           before |-> reg.registry,
                           result |-> get(reg.registry, req_type)]]
  /\ UNCHANGED << ck, tr, ep, nl, cp, at, an, pipeVars >>

NextRegistry == Registry_register \/ Registry_get

SpecRegistry == InitRegistry /\ [][NextRegistry]_vars

\* ------------------------------------------------------------------------
\* Serialization of requirement lists through the registry
\* ------------------------------------------------------------------------
\* The requirements of the serialized list.
MaxList == 2

\* The class statements executed when the verification modules are imported,
\* in import order.
ClassStatements ==
  << "BasePrecondition", "BasePathcondition", "BasePostcondition",
     "Precondition", "Pathcondition", "MultiStagePathcondition",
     "Postcondition" >>

\* The _registry after the imports: register applied by __init_subclass__ to
\* every class statement.
ImportedRegistry ==
  LET RECURSIVE Fold(_, _)
      Fold(i, registry) ==
        IF i > Len(ClassStatements) THEN registry
        ELSE Fold(i + 1,
                  register(registry, [name |-> ClassStatements[i], id |-> 1]).registry)
  IN Fold(1, << >>)

\* The classes derived from BasePostcondition, which declares the field `on`.
PostconditionClasses == {"Postcondition"}

\* Faulty variant of serialize_level: the member's name is dumped.
serialize_level_Name(level) == level

\* serialize_level: level.value of the Level member.
serialize_level(level) ==
  CASE level = "MUST" -> "must"
    [] level = "SHOULD" -> "should"

\* Level(value): the member with that value; anything else is not a Level.
Level_of_value(value) ==
  CASE value = "must" -> "MUST"
    [] value = "should" -> "SHOULD"
    [] OTHER -> None

\* A requirement instance of a concrete class.
RequirementInstance(class, uuid, name, level, on) ==
  IF class \in PostconditionClasses
  THEN [class |-> class, uuid |-> uuid, name |-> name, level |-> level,
        requirement |-> name, on |-> on]
  ELSE [class |-> class, uuid |-> uuid, name |-> name, level |-> level,
        requirement |-> name]

\* to_dict: model_dump() of the fields, the level through serialize_level, and
\* the class name under "__class__".
to_dict(req) ==
  IF "on" \in DOMAIN req
  THEN [uuid |-> req.uuid, name |-> req.name, level |-> serialize_level(req.level),
        requirement |-> req.requirement, on |-> req.on, __class__ |-> req.class]
  ELSE [uuid |-> req.uuid, name |-> req.name, level |-> serialize_level(req.level),
        requirement |-> req.requirement, __class__ |-> req.class]

\* _serialize_requirements(reqs) as Contract.model_dump() calls it.
serialize_requirements(reqs) == [i \in 1..Len(reqs) |-> to_dict(reqs[i])]

\* cx.model_validate(item): the fields of class cx validated from the item,
\* other keys ignored; a value that is no Level, or a missing or invalid `on`
\* of a postcondition, raises ValidationError.
model_validate(cx, item) ==
  LET level == Level_of_value(item.level)
      post == cx.name \in PostconditionClasses
  IN IF level = None
        \/ (post /\ ("on" \notin DOMAIN item
                     \/ item.on \notin {"output", "conversation"}))
     THEN [raised |-> TRUE, exc |-> "ValidationError"]
     ELSE [raised |-> FALSE, exc |-> None,
           value |-> IF post
                     THEN [class |-> cx.name, uuid |-> item.uuid, name |-> item.name,
                           level |-> level, requirement |-> item.requirement,
                           on |-> item.on]
                     ELSE [class |-> cx.name, uuid |-> item.uuid, name |-> item.name,
                           level |-> level, requirement |-> item.requirement]]

\* _deserialize_requirements(data): the loop over the items; the first
\* exception of get or model_validate propagates.
deserialize_requirements(data) ==
  LET RECURSIVE Loop(_, _)
      Loop(i, result) ==
        IF i > Len(data) THEN [raised |-> FALSE, exc |-> None, result |-> result]
        ELSE LET cx == get(ImportedRegistry, data[i].__class__)
             IN IF cx.raised THEN [raised |-> TRUE, exc |-> cx.exc]
                ELSE LET v == model_validate(cx.class, data[i])
                     IN IF v.raised THEN [raised |-> TRUE, exc |-> v.exc]
                        ELSE Loop(i + 1, Append(result, v.value))
  IN Loop(1, << >>)

RequirementInstances ==
  {RequirementInstance(class, uuid, name, level, on) :
     class \in DOMAIN ImportedRegistry, uuid \in {"req-1", "req-2"},
     name \in {"n1", "n2"}, level \in {"MUST", "SHOULD"},
     on \in {"output", "conversation"}}

\* A contract's requirement list, before it is dumped.
InitRoundTrip ==
  /\ \E n \in 0..MaxList :
       \E requirements \in [1..n -> RequirementInstances] :
         reg = [pc |-> "contract", requirements |-> requirements]
  /\ ck = CkOff
  /\ tr = TrOff
  /\ ep = EpOff
  /\ nl = NlOff
  /\ cp = CpOff
  /\ at = AtOff
  /\ an = AnOff
  /\ PipeInit({}, {})

\* Contract.model_dump(): dump["requirements"].
Contract_model_dump ==
  /\ reg.pc = "contract"
  /\ reg' = [pc |-> "dumped", requirements |-> reg.requirements,
             dump |-> serialize_requirements(reg.requirements)]
  /\ UNCHANGED << ck, tr, ep, nl, cp, at, an, pipeVars >>

\* Contract.model_validate(data): the requirements rebuilt from the dump.
Contract_model_validate ==
  /\ reg.pc = "dumped"
  /\ reg' = [pc |-> "validated", requirements |-> reg.requirements,
             dump |-> reg.dump, loaded |-> deserialize_requirements(reg.dump)]
  /\ UNCHANGED << ck, tr, ep, nl, cp, at, an, pipeVars >>

NextRoundTrip == Contract_model_dump \/ Contract_model_validate

SpecRoundTrip == InitRoundTrip /\ [][NextRoundTrip]_vars

\* ------------------------------------------------------------------------
\* Attribute decoding: attribute_value and recreate_attributes_hierarchy
\* ------------------------------------------------------------------------
\* Python values: a record of the type's name and the payload.
PyNone == [type |-> "None"]

PyStr(s) == [type |-> "str", s |-> s]

PyInt(n) == [type |-> "int", n |-> n]

PyBool(b) == [type |-> "bool", b |-> b]

PyList(l) == [type |-> "list", l |-> l]

PyDict(d) == [type |-> "dict", d |-> d]

\* bool(v): None, 0, False and the empty str, list and dict are falsy.
bool(v) ==
  CASE v.type = "None" -> FALSE
    [] v.type = "str" -> v.s # ""
    [] v.type = "int" -> v.n # 0
    [] v.type = "bool" -> v.b
    [] v.type = "list" -> v.l # << >>
    [] v.type = "dict" -> DOMAIN v.d # {}

\* The string values of the attributes decoded below.
AttributeTexts == {"hi", "user", "{\"a\": 1}", "{}", "0", "[1, 2"}

\* json.loads(text) of the standard library: whether the text is a JSON
\* document, and its value.
json_parse(text) ==
  CASE text = "{\"a\": 1}" -> [valid |-> TRUE, value |-> PyDict([a |-> PyInt(1)])]
    [] text = "{}" -> [valid |-> TRUE, value |-> PyDict(EmptyDict)]
    [] text = "0" -> [valid |-> TRUE, value |-> PyInt(0)]
    [] OTHER -> [valid |-> FALSE, value |-> PyNone]

\* json_repair.loads(text): the value of a JSON document; for other text the
\* value of its repair (an unclosed array is closed), the empty string when
\* the text has no JSON in it.
json_repair_loads(text) ==
  IF json_parse(text).valid THEN json_parse(text).value
  ELSE CASE text = "[1, 2" -> PyList(<< PyInt(1), PyInt(2) >>)
         [] OTHER -> PyStr("")

\* int(text) of a decimal text.
int(text) ==
  CASE text = "0" -> 0
    [] text = "1" -> 1
    [] text = "2" -> 2
    [] text = "7" -> 7

\* `rep or other` of two values.
py_or(rep, other) == IF bool(rep) THEN rep ELSE other

\* attribute_value(attribute).  A typed value is a record with one of the
\* keys stringValue, intValue, boolValue; a legacy value is [raw |-> text]
\* beside a "type".
attribute_value(attribute) ==
  IF "value" \notin DOMAIN attribute THEN PyDict(attribute)
  ELSE LET value == attribute.value
       IN IF "raw" \notin DOMAIN value
          THEN IF "stringValue" \in DOMAIN value
               THEN py_or(json_repair_loads(value.stringValue), PyStr(value.stringValue))
               ELSE IF "intValue" \in DOMAIN value THEN PyInt(int(value.intValue))
               ELSE IF "boolValue" \in DOMAIN value THEN PyBool(value.boolValue)
               ELSE PyDict(value)
          ELSE IF "type" \in DOMAIN attribute
               THEN CASE attribute.type = "string" -> PyStr(value.raw)
                      [] attribute.type = "int" -> PyInt(int(value.raw))
                      [] attribute.type = "bool" -> PyBool(value.raw # "")
                      [] OTHER -> PyStr(value.raw)
               ELSE PyStr(value.raw)

\* The attribute lists recreate_attributes_hierarchy is called with.
MaxAttrs == 2

\* The dotted keys of the attributes.
DottedKeys ==
  {"input", "input.0", "input.0.role", "input.0.content", "input.1.role",
   "input.role", "role", "0", "0.role", "1"}

\* path_str.split(".").
split(path_str) ==
  CASE path_str = "input" -> << "input" >>
    [] path_str = "input.0" -> << "input", "0" >>
    [] path_str = "input.0.role" -> << "input", "0", "role" >>
    [] path_str = "input.0.content" -> << "input", "0", "content" >>
    [] path_str = "input.1.role" -> << "input", "1", "role" >>
    [] path_str = "input.role" -> << "input", "role" >>
    [] path_str = "role" -> << "role" >>
    [] path_str = "0" -> << "0" >>
    [] path_str = "0.role" -> << "0", "role" >>
    [] path_str = "1" -> << "1" >>

\* p.isdigit() on the segments above.
isdigit(p) == p \in {"0", "1", "2", "7"}

\* [int(p) if p.isdigit() else p for p in path_str.split(".")]
path_of(path_str) ==
  LET segments == split(path_str)
  IN [i \in 1..Len(segments) |->
        IF isdigit(segments[i]) THEN PyInt(int(segments[i]))
        ELSE PyStr(segments[i])]

\* insert_into(current, path, value): the object it returns.  A list or dict
\* passed as current is changed in place and returned; any other current is
\* replaced by a new list or dict.
RECURSIVE insert_into(_, _, _)
insert_into(current, path, value) ==
  IF path = << >> THEN value
  ELSE LET key == Head(path)
           rest == Tail(path)
       IN IF key.type = "int"
          THEN LET list == IF current.type = "list" THEN current.l ELSE << >>
                   padded == IF Len(list) <= key.n
                             THEN list \o [i \in 1..(key.n + 1 - Len(list)) |-> PyNone]
                             ELSE list
                   item == IF rest = << >> THEN value
                           ELSE insert_into(padded[key.n + 1], rest, value)
               IN PyList([padded EXCEPT ![key.n + 1] = item])
          ELSE LET dict == IF current.type = "dict" THEN current.d ELSE EmptyDict
                   item == IF rest = << >> THEN value
                           ELSE insert_into(IF key.s \in DOMAIN dict
                                            THEN dict[key.s] ELSE PyNone,
                                            rest, value)
               IN PyDict([k \in DOMAIN dict \cup {key.s} |->
                            IF k = key.s THEN item ELSE dict[k]])

\* The value recreate_attributes_hierarchy inserts for an entry:
\* parsed_value or value.
inserted_value(value) == py_or(json_repair_loads(value), PyStr(value))

\* recreate_attributes_hierarchy(items): root after the loop.  The result of
\* insert_into(root, ...) is discarded, so root changes only where the call
\* changes the dict it was passed: when the first key is no integer.  With an
\* integer first key insert_into fills a new list and root keeps its value.
recreate_attributes_hierarchy(items) ==
  LET RECURSIVE Loop(_, _)
      Loop(i, root) ==
        IF i > Len(items) THEN root
        ELSE LET path == path_of(items[i].key)
                 returned == insert_into(root, path, inserted_value(items[i].value))
             IN Loop(i + 1, IF path[1].type = "int" THEN root ELSE returned)
  IN Loop(1, PyDict(EmptyDict))

\* One call of attribute_value or of recreate_attributes_hierarchy, before it
\* runs.
InitAttributes ==
  /\ \/ \E t \in AttributeTexts :
          at = [pc |-> "call", fn |-> "attribute_value",
                attribute |-> [key |-> "k", value |-> [stringValue |-> t]]]
     \/ \E t \in {"0", "7"} :
          at = [pc |-> "call", fn |-> "attribute_value",
                attribute |-> [key |-> "k", value |-> [intValue |-> t]]]
     \/ \E b \in BOOLEAN :
          at = [pc |-> "call", fn |-> "attribute_value",
                attribute |-> [key |-> "k", value |-> [boolValue |-> b]]]
     \/ at = [pc |-> "call", fn |-> "attribute_value",
              attribute |-> [key |-> "k", value |-> [arrayValue |-> "v"]]]
     \/ at = [pc |-> "call", fn |-> "attribute_value", attribute |-> [key |-> "k"]]
     \/ \E t \in {"string", "int", "bool", "float64"}, v \in {"0", "7"} :
          at = [pc |-> "call", fn |-> "attribute_value",
                attribute |-> [key |-> "k", type |-> t, value |-> [raw |-> v]]]
     \/ at = [pc |-> "call", fn |-> "attribute_value",
              attribute |-> [key |-> "k", value |-> [raw |-> "hi"]]]
     \/ \E n \in 0..MaxAttrs :
          \E keys \in [1..n -> DottedKeys],
             values \in [1..n -> {"user", "hi", "{\"a\": 1}"}] :
            at = [pc |-> "call", fn |-> "recreate_attributes_hierarchy",
                  items |-> [i \in 1..n |-> [key |-> keys[i], value |-> values[i]]]]
  /\ ck = CkOff
  /\ tr = TrOff
  /\ ep = EpOff
  /\ nl = NlOff
  /\ cp = CpOff
  /\ reg = RegOff
  /\ an = AnOff
  /\ PipeInit({}, {})

\* attribute_value(attribute) returns.
Attribute_value ==
  /\ at.pc = "call"
  /\ at.fn = "attribute_value"
  /\ at' = [pc |-> "returned", fn |-> at.fn, attribute |-> at.attribute,
            result |-> attribute_value(at.attribute)]
  /\ UNCHANGED << ck, tr, ep, nl, cp, reg, an, pipeVars >>

\* recreate_attributes_hierarchy(items) returns.
Recreate_attributes_hierarchy ==
  /\ at.pc = "call"
  /\ at.fn = "recreate_attributes_hierarchy"
  /\ at' = [pc |-> "returned", fn |-> at.fn, items |-> at.items,
            result |-> recreate_attributes_hierarchy(at.items)]
  /\ UNCHANGED << ck, tr, ep, nl, cp, reg, an, pipeVars >>

NextAttributes == Attribute_value \/ Recreate_attributes_hierarchy

SpecAttributes == InitAttributes /\ [][NextAttributes]_vars

\* ------------------------------------------------------------------------
\* Trace._analyze
\* ------------------------------------------------------------------------
\* The spans of the analysed raw trace.
MaxScan == 2

OpeninferenceInstrumentators_CREWAI == "openinference.instrumentation.crewai"

OpeninferenceInstrumentators_LANGCHAIN == "openinference.instrumentation.langchain"

\* Framework.from_name(name): UNKNOWN for None, CREWAI when "crewai" is in the
\* name, else LANGCHAIN when "langchain" is in it, else UNKNOWN.
Framework_from_name(name) ==
  CASE name = None -> "UNKNOWN"
    [] name = OpeninferenceInstrumentators_CREWAI -> "CREWAI"
    [] name = OpeninferenceInstrumentators_LANGCHAIN -> "LANGCHAIN"
    [] OTHER -> "UNKNOWN"

\* TraceInfo(): the defaults.
TraceInfo ==
  [framework |-> "UNKNOWN", project_name |-> None, run_id |-> None,
   specifications_id |-> None, scenario_id |-> None]

\* TraceInfo.is_complete; the framework is never None.
is_complete(info) ==
  /\ info.project_name # None
  /\ info.run_id # None
  /\ info.scenario_id # None
  /\ info.specifications_id # None

\* `a or b` for Optional[str] values that are None or non-empty text.
or_else(a, b) == IF a # None THEN a ELSE b

\* The body of the first loop of _analyze for one span.  A span is given by
\* what get_attribute_value finds in it under each key (None: no such
\* attribute).
analyze_span(info, span) ==
  LET framework == Framework_from_name(span.otel_scope_name)
  IN [project_name |-> or_else(info.project_name, span.project_name),
      run_id |-> or_else(info.run_id, span.run_id),
      specifications_id |-> or_else(info.specifications_id, span.specifications_id),
      scenario_id |-> or_else(info.scenario_id, span.scenario_id),
      framework |-> IF framework # "UNKNOWN" THEN framework ELSE info.framework]

\* The first loop of _analyze: the info after it and the number of spans it
\* read before `if info.is_complete: break` or the end of the list.
find_basic_metadata(raw_trace) ==
  LET RECURSIVE Scan(_, _)
      Scan(i, info) ==
        IF i > Len(raw_trace) THEN [info |-> info, scanned |-> Len(raw_trace)]
        ELSE LET next == analyze_span(info, raw_trace[i])
             IN IF is_complete(next) THEN [info |-> next, scanned |-> i]
                ELSE Scan(i + 1, next)
  IN Scan(1, TraceInfo)

\* The second loop of _analyze: the first span with a "scope" whose name is
\* one of the two instrumentors sets the framework.
find_framework(raw_trace, framework) ==
  LET hits == {i \in 1..Len(raw_trace) :
                 raw_trace[i].scope \in {OpeninferenceInstrumentators_CREWAI,
                                         OpeninferenceInstrumentators_LANGCHAIN}}
  IN IF hits = {} THEN framework
     ELSE Framework_from_name(raw_trace[CHOOSE i \in hits : \A j \in hits : i <= j].scope)

NanosPerSecond == 1000000000

\* _analyze(): first_pass is the info after the first loop, info the one
\* returned.  The duration (end_time - start_time) / 1e9 is given as its
\* whole seconds and the remaining nanoseconds.
analyze(raw_trace) ==
  LET first == find_basic_metadata(raw_trace)
      start_time == Min({raw_trace[i].startTime : i \in 1..Len(raw_trace)})
      end_time == Max({raw_trace[i].endTime : i \in 1..Len(raw_trace)})
  IN [first_pass |-> first.info, scanned |-> first.scanned,
      info |-> [project_name |-> first.info.project_name,
                run_id |-> first.info.run_id,
                specifications_id |-> first.info.specifications_id,
                scenario_id |-> first.info.scenario_id,
                framework |-> find_framework(raw_trace, first.info.framework),
                start_time |-> start_time,
                duration |-> [seconds |-> (end_time - start_time) \div NanosPerSecond,
                              nanos |-> (end_time - start_time) % NanosPerSecond]]]

\* The i-th raw span of an analysed trace.
AnalysedSpan(i, project_name, run_id, specifications_id, scenario_id, otel_scope_name, scope) ==
  [project_name |-> project_name, run_id |-> run_id,
   specifications_id |-> specifications_id, scenario_id |-> scenario_id,
   otel_scope_name |-> otel_scope_name, scope |-> scope,
   startTime |-> i, endTime |-> i + NanosPerSecond]

\* A raw trace of one to MaxScan spans, before _analyze; at most one of the
\* spans has a "scope".
InitAnalyze ==
  /\ \E n \in 1..MaxScan :
       \E project_name \in [1..n -> {None, "a", "b"}],
          run_id \in [1..n -> {None, "r"}],
          specifications_id \in [1..n -> {None, "s"}],
          scenario_id \in [1..n -> {None, "c"}],
          otel_scope_name \in [1..n -> {None, OpeninferenceInstrumentators_CREWAI,
                                        OpeninferenceInstrumentators_LANGCHAIN}],
          scoped \in 0..n :
         an = [pc |-> "call",
               raw_trace |-> [i \in 1..n |->
                                AnalysedSpan(i, project_name[i], run_id[i],
                                             specifications_id[i], scenario_id[i],
                                             otel_scope_name[i],
                                             IF i = scoped
                                             THEN OpeninferenceInstrumentators_LANGCHAIN
                                             ELSE None)]]
  /\ ck = CkOff
  /\ tr = TrOff
  /\ ep = EpOff
  /\ nl = NlOff
  /\ cp = CpOff
  /\ reg = RegOff
  /\ at = AtOff
  /\ PipeInit({}, {})

\* self.info = self._analyze().
Trace_analyze ==
  /\ an.pc = "call"
  /\ an' = [pc |-> "returned", raw_trace |-> an.raw_trace,
            res |-> analyze(an.raw_trace)]
  /\ UNCHANGED << ck, tr, ep, nl, cp, reg, at, pipeVars >>

NextAnalyze == Trace_analyze

SpecAnalyze == InitAnalyze /\ [][NextAnalyze]_vars

\* ------------------------------------------------------------------------
\* Several NL checks of one execution path, run by one gather
\* ------------------------------------------------------------------------
\* The checks gathered over one execution path (two MultiStagePathcondition
\* requirements of a contract).
Checkers == {1, 2}

\* Rejected responses one check may see (the loops have no cap of their own).
MaxRejects == 1

\* Actions of the execution path the checks are gathered over.
MaxPathLen == 2

\* The attributes of an action's span, bound to action.info by
\* ExecutionPath.fill: plain text, text next to an "otel" entry, an inline
\* image.  The first action of a path has any of them, the others plain text.
InfoValues ==
  { [input |-> "hi"], [input |-> "hi", otel |-> "scope"], [input |-> "data:image/png"] }

\* redact_info on a string: an inline image is replaced.
redact_str(info) == IF info = "data:image/png" THEN "__REDACTED__" ELSE info

\* redact_info on a dict of strings: the keys otel, span, token_usage are
\* popped from the dict it is given and every value is replaced by its
\* redaction in that same dict, which is also what it returns.  (No dict
\* drawn here has exactly the keys lc, type, id, kwargs.)
redact_info(info) ==
  [k \in DOMAIN info \ {"otel", "span", "token_usage"} |-> redact_str(info[k])]

\* process_info of exec_path_to_str_compact: infox = redact_info(info) on the
\* action's own info dict; the dict the action holds afterwards.
process_info(info) == redact_info(info)

\* exec_path_to_str_compact(exec_path): process_info on the info of every
\* action (state info is left out by default); the infos of the path after
\* the call.
exec_path_to_str_compact(infos) == [a \in DOMAIN infos |-> process_info(infos[a])]

\* action.model_dump(): a deep copy of the action; the info of the copy is a
\* new dict with the entries of action.info.
Action_model_dump(info) == [k \in DOMAIN info |-> info[k]]

\* Faulty variant of NLRequirementChecker_updates: one list for all checkers.
NLRequirementChecker_updates_Shared(self) == 1

\* NLRequirementChecker.__init__: self.updates = [] binds a new list to each
\* checker; lists are named by the checker that created them.
NLRequirementChecker_updates(self) == self

\* checker = NLRequirementChecker(requirement), before init.
NLRequirementChecker(self) ==
  [pc |-> "init", schema |-> NoneDict, instructions |-> None,
   updates |-> NLRequirementChecker_updates(self), pos |-> 0, rejected |-> 0,
   result |-> NoneDict]

\* What one judge response does to the checker that awaited it and to the
\* update lists: the code of init, step (with the loop control of check) and
\* verify after the await.  response.kind is "error" for a judge call that
\* used up its attempts; n is the number of actions of the path.
fold(checker, lists, n, response) ==
  LET same == [checker |-> checker, lists |-> lists]
      after(pos, early) == IF early \/ pos >= n THEN "verify" ELSE "step"
      parsed == json_loads(response.text)
  IN
  IF response.kind = "error"
  THEN [checker |-> [checker EXCEPT !.pc = "raised"], lists |-> lists]
  ELSE CASE checker.pc = "init" ->
         IF init_valid(parsed)
         THEN [checker |-> [checker EXCEPT !.schema = parsed,
                                           !.instructions = response.instructions,
                                           !.pc = after(0, FALSE)],
               lists |-> lists]
         ELSE [checker |-> [checker EXCEPT !.rejected = @ + 1], lists |-> lists]
       [] checker.pc = "step" ->
         IF ~py_bool(checker.schema) \/ checker.instructions = ""
            \/ step_valid_raises(checker.schema)
         THEN [checker |-> [checker EXCEPT !.pc = "raised"], lists |-> lists]
         ELSE IF ~step_valid(checker.schema, parsed)
         THEN [checker |-> [checker EXCEPT !.rejected = @ + 1], lists |-> lists]
         ELSE IF StepResult_raises(parsed)
         THEN [checker |-> [checker EXCEPT !.pc = "raised"], lists |-> lists]
         ELSE LET update == [span_id |-> checker.pos + 1, result |-> parsed,
                             reasoning |-> response.reasoning,
                             early_termination |->
                               update_early_termination(TRUE, response.early_termination)]
              IN [checker |-> [checker EXCEPT
                                 !.pos = @ + 1,
                                 !.pc = after(checker.pos + 1, update.early_termination)],
                  lists |-> [lists EXCEPT ![checker.updates] = updates_append(@, update)]]
       [] checker.pc = "verify" ->
         [checker |-> [checker EXCEPT
                         !.pc = "done",
                         !.result = [satisfied |-> response.satisfied,
                                     updates |-> lists[checker.updates],
                                     step_update_instruction |-> checker.instructions]],
          lists |-> lists]
       [] OTHER -> same

\* The responses a judge may give to the call a checker is waiting on.  The
\* reasoning of a response names the checker it was given to.
Responses(self, pc) ==
  {[kind |-> "error", text |-> "{}"]} \cup
  (IF pc = "init"
   THEN {[kind |-> "INIT", text |-> t, instructions |-> i] :
           t \in {"{}", "{\"k\": 0}"}, i \in {"update k"}}
   ELSE IF pc = "step"
   THEN {[kind |-> "STEP", text |-> t, reasoning |-> self, early_termination |-> e] :
           t \in {"{}", "{\"k\": 1}"}, e \in BOOLEAN}
   ELSE {[kind |-> "VERIFY", text |-> "{}", satisfied |-> s] : s \in BOOLEAN})

\* gather starts the checks of the requirements on the same ExecutionPath
\* object (prepare_requirement_input returns exec_path itself).
InitFolds ==
  /\ \E n \in 1..MaxPathLen : \E value \in InfoValues :
       nl = [pc |-> "folds", n |-> n,
             before |-> [a \in 1..n |-> IF a = 1 THEN value ELSE [input |-> "hi"]],
             info |-> [a \in 1..n |-> IF a = 1 THEN value ELSE [input |-> "hi"]],
             lists |-> [c \in Checkers |-> << >>],
             checker |-> [c \in Checkers |-> NLRequirementChecker(c)],
             responses |-> [c \in Checkers |-> << >>],
             prompts |-> [c \in Checkers |-> << >>]]
  /\ ck = CkOff
  /\ tr = TrOff
  /\ ep = EpOff
  /\ UtilOff
  /\ PipeInit({}, {})

\* One checker renders a prompt, awaits the judge and runs from the return
\* of the judge call to its next await.
Fold_resume(self, prompt, response) ==
  LET next == fold(nl.checker[self], nl.lists, nl.n, response)
  IN [nl EXCEPT !.checker[self] = next.checker,
                !.lists = next.lists,
                !.responses[self] = Append(@, response),
                !.prompts[self] = Append(@, prompt)]

\* checker.init(exec_path): the first pass renders the INIT prompt from
\* exec_path_to_str_compact(exec_path), then every pass awaits the judge.
Fold_init(self) ==
  /\ nl.pc = "folds"
  /\ nl.checker[self].pc = "init"
  /\ \E response \in Responses(self, "init") :
       /\ init_valid(json_loads(response.text)) \/ response.kind = "error"
          \/ nl.checker[self].rejected < MaxRejects
       /\ LET first == nl.responses[self] = << >>
              after == IF first THEN exec_path_to_str_compact(nl.info) ELSE nl.info
              prompt == IF first THEN after ELSE nl.prompts[self][1]
          IN nl' = [Fold_resume(self, prompt, response) EXCEPT !.info = after]
  /\ UNCHANGED << ck, tr, ep, utilVars, pipeVars >>

\* checker.step(state, action): the STEP prompt is rendered from
\* action.model_dump() with its info redacted, then the judge is awaited.
Fold_step(self) ==
  /\ nl.pc = "folds"
  /\ nl.checker[self].pc = "step"
  /\ \E response \in Responses(self, "step") :
       /\ response.kind = "error" \/ step_valid_raises(nl.checker[self].schema)
          \/ step_valid(nl.checker[self].schema, json_loads(response.text))
          \/ nl.checker[self].rejected < MaxRejects
       /\ LET action_dump == Action_model_dump(nl.info[nl.checker[self].pos + 1])
          IN nl' = Fold_resume(self, redact_info(action_dump), response)
  /\ UNCHANGED << ck, tr, ep, utilVars, pipeVars >>

\* checker.verify().
Fold_verify(self) ==
  /\ nl.pc = "folds"
  /\ nl.checker[self].pc = "verify"
  /\ \E response \in Responses(self, "verify") :
       nl' = Fold_resume(self, nl.lists[nl.checker[self].updates], response)
  /\ UNCHANGED << ck, tr, ep, utilVars, pipeVars >>

NextFolds == \E self \in Checkers : Fold_init(self) \/ Fold_step(self) \/ Fold_verify(self)

SpecFolds == InitFolds /\ [][NextFolds]_vars

\* ------------------------------------------------------------------------
\* Properties of ContractChecker.check (checked under SpecChecker)
\* ------------------------------------------------------------------------
CkReturned == ck.pc = "done" /\ ~ck.res.raised

\* Some MUST requirement of one of the types was found unsatisfied.
MustUnsat(contract, outcome, types) ==
  \E i \in 1..Len(contract) :
    /\ contract[i].level = "must"
    /\ contract[i].type \in types
    /\ outcome[contract[i].uuid] = "unsat"

ExpectedStatus(contract, outcome) ==
  IF MustUnsat(contract, outcome, {"precondition"}) THEN "INVALID"
  ELSE IF MustUnsat(contract, outcome, {"pathcondition", "postcondition"})
    THEN "UNSATISFIED"
  ELSE "SATISFIED"

\* C1: with the default filter ALL, check returns INVALID if some MUST
\* precondition is unsatisfied (whatever the other results), otherwise
\* UNSATISFIED if some MUST pathcondition or postcondition is unsatisfied,
\* otherwise SATISFIED.
C1_StatusAlgebra ==
  (CkReturned /\ ck.filter = Condition_ALL)
    => ck.res.satisfied = ExpectedStatus(ck.contract, ck.outcome)

\* C1 witness: an unsatisfied MUST postcondition is stored before an
\* unsatisfied MUST precondition, and the status is INVALID.
C1_Witness ==
  /\ CkReturned
  /\ ck.filter = Condition_ALL
  /\ Len(ck.contract) >= 2
  /\ ck.contract[1].type = "postcondition"
  /\ ck.contract[1].level = "must"
  /\ ck.outcome[1] = "unsat"
  /\ ck.contract[2].type = "precondition"
  /\ ck.contract[2].level = "must"
  /\ ck.outcome[2] = "unsat"
  /\ ck.res.satisfied = "INVALID"

\* The status check computes for a result assignment, per filter.
StatusFor(contract, filter, outcome) ==
  compute_contract_status(contract, gather(group(contract, filter), outcome))

AgreeOnMust(contract, o1, o2) ==
  \A i \in 1..Len(contract) :
    contract[i].level = "must" => o1[contract[i].uuid] = o2[contract[i].uuid]

\* C2: SHOULD-level results never affect the status check returns: two result
\* assignments that agree on every MUST requirement give the same status, and
\* with every MUST requirement satisfied the status is SATISFIED.
C2_ShouldNeverAffectsStatus ==
  CkReturned =>
    /\ \A o2 \in [Uuids(ck.contract) -> {"sat", "unsat"}] :
         AgreeOnMust(ck.contract, ck.outcome, o2)
           => StatusFor(ck.contract, ck.filter, o2) = ck.res.satisfied
    /\ (\A i \in 1..Len(ck.contract) :
          ck.contract[i].level = "must" => ck.outcome[i] = "sat")
         => ck.res.satisfied = "SATISFIED"

\* C3: with filter ALL the returned map has exactly one entry per requirement
\* id, each holding the result of that requirement's check, also when the
\* status is INVALID.
C3_EveryRequirementInMap ==
  (CkReturned /\ ck.filter = Condition_ALL)
    => /\ DOMAIN ck.res.info = Uuids(ck.contract)
       /\ \A i \in 1..Len(ck.contract) :
            ck.res.info[ck.contract[i].uuid]
              = VerificationResults(ck.contract[i], ck.outcome[i] = "sat")

\* C3 witness (scenario D): an unsatisfied MUST precondition, a satisfied MUST
\* postcondition, status INVALID, the postcondition's result in the map.
C3_Witness ==
  /\ CkReturned
  /\ ck.filter = Condition_ALL
  /\ ck.res.satisfied = "INVALID"
  /\ \E i, j \in 1..Len(ck.contract) :
       /\ ck.contract[i].type = "precondition"
       /\ ck.contract[i].level = "must"
       /\ ck.outcome[i] = "unsat"
       /\ ck.contract[j].type = "postcondition"
       /\ ck.contract[j].level = "must"
       /\ ck.outcome[j] = "sat"
       /\ j \in DOMAIN ck.res.info
       /\ ck.res.info[j].satisfied

\* C6: a requirement whose check raises fails only its own result: check
\* still returns, with the results of all sibling requirements.
C6_FailureIsolatedToRequirement ==
  ck.pc = "done" =>
    /\ ~ck.res.raised
    /\ \A i \in 1..Len(ck.contract) :
         (matches(ck.filter, ck.contract[i]) /\ ck.outcome[i] # "raise")
           => \E u \in DOMAIN ck.res.info :
                ck.res.info[u].explanation = ck.contract[i].uuid

\* ------------------------------------------------------------------------
\* Properties of the certification pipeline (checked under Spec / SpecParse)
\* ------------------------------------------------------------------------
PathPost(contract) ==
  {r \in Uuids(contract.requirements) :
     \E i \in 1..Len(contract.requirements) :
       /\ contract.requirements[i].uuid = r
       /\ contract.requirements[i].type \in {"pathcondition", "postcondition"}}

C5_CertificateShape ==
  \A k \in DOMAIN cache :
    \A cid \in DOMAIN cache[k].value :
      LET entry == cache[k].value[cid]
      IN /\ "status" \in DOMAIN entry
         /\ "requirements" \in DOMAIN entry
         /\ DOMAIN entry.requirements = PathPost(ContractByUuid(cid))
         /\ \A rid \in DOMAIN entry.requirements :
              entry.requirements[rid].explanation = rid

\* C7: a failure while building or certifying one trace does not end the
\* consumer loop.
C7_TraceFailureIsolated ==
  \A p \in Consumers :
    main[p].pc = "crashed" => main[p].exc \notin {"build", "gate", "check"}

\* C8: no message payload ends the consumer loop: whatever parse_span makes of
\* the payload, the loop goes on to the next poll.
C8_NoPayloadFatal ==
  \A p \in Consumers :
    main[p].pc = "crashed" => main[p].exc # "preprocess"

\* C9: the delete step of a re-certification removes the certificate stored
\* for the trace id, so that right after it none can be read under the key the
\* new certificate will be written to.
C9_DeleteRemovesCertificate ==
  [][\A p \in Consumers :
       Delete(p) => write_key(cur(p).trace_id) \notin DOMAIN cache']_vars

\* C10: no lock orders overlapping certifications of a trace id: the
\* certificate in the cache is the one of whichever certification wrote last.
C10_LastWriterWins ==
  \A k \in DOMAIN cache :
    /\ k \in DOMAIN last_writer
    /\ LET w == last_writer[k]
       IN (cert[w].pc = "done" /\ write_key(cur(w).trace_id) = k)
            => cache[k].value = cert[w].payload

\* C10 witness: two overlapping certifications of one trace id have both
\* written; the one that started first wrote last and its certificate, which
\* differs from the other's, is the one in the cache.
C10_Witness ==
  \E p, q \in Consumers :
    /\ p # q
    /\ cert[p].pc = "done"
    /\ cert[q].pc = "done"
    /\ cur(p).trace_id = cur(q).trace_id
    /\ p \in cert[q].overlapped
    /\ cert[p].payload # cert[q].payload
    /\ DOMAIN cert[p].payload # {}
    /\ DOMAIN cert[q].payload # {}
    /\ write_key(cur(p).trace_id) \in DOMAIN cache
    /\ last_writer[write_key(cur(p).trace_id)] = p
    /\ cache[write_key(cur(p).trace_id)].value = cert[p].payload

\* C11: every certificate in the cache, the empty one included, was stored
\* with the configured TTL of 600 seconds, and a key that is not in the cache
\* (never written, deleted or expired) becomes readable again only by a write
\* of certify_span.
C11_EveryWriteSetsTtl ==
  /\ [](\A k \in DOMAIN cache : cache[k].ttl = RuntimeVerificationConfig_ttl)
  /\ [][\A k \in DOMAIN cache' :
          k \notin DOMAIN cache
            => \E p \in Consumers :
                 /\ Write(p) \/ WriteEmpty(p)
                 /\ k = write_key(cur(p).trace_id)
                 /\ cache'[k].ttl = RuntimeVerificationConfig_ttl]_vars

\* C11 witness: a certification without active contract has returned and the
\* empty certificate is in the cache with the TTL.
C11_Witness ==
  \E k \in DOMAIN cache :
    /\ cache[k].value = EmptyDict
    /\ cache[k].ttl = RuntimeVerificationConfig_ttl
    /\ \E p \in Consumers : cert[p].pc = "done" /\ cert[p].active = <<>>

\* Position of a requirement kind in the iteration order.
KindRank(t) ==
  CASE t = "precondition" -> 1
    [] t = "pathcondition" -> 2
    [] t = "postcondition" -> 3

\* C12: iterating a contract yields every stored requirement exactly once,
\* preconditions first, then pathconditions, then postconditions, and inside a
\* kind in storage order (a requirement's uuid is its storage index), for every
\* storage order.
C12_IterationOrder ==
  CkReturned =>
    LET stored == ck.contract
        it == Contract_iter(stored)
    IN /\ Len(it) = Len(stored)
       /\ \A i \in 1..Len(stored) :
            Cardinality({j \in 1..Len(it) : it[j] = stored[i]}) = 1
       /\ \A i, j \in 1..Len(it) :
            i < j =>
              \/ KindRank(it[i].type) < KindRank(it[j].type)
              \/ /\ it[i].type = it[j].type
                 /\ it[i].uuid < it[j].uuid

\* C12 witness: a checked contract is stored as postcondition, pathcondition,
\* precondition and iterated in the reverse of that order.
C12_Witness ==
  /\ CkReturned
  /\ Len(ck.contract) = 3
  /\ ck.contract[1].type = "postcondition"
  /\ ck.contract[2].type = "pathcondition"
  /\ ck.contract[3].type = "precondition"
  /\ Contract_iter(ck.contract) = << ck.contract[3], ck.contract[2], ck.contract[1] >>

\* ------------------------------------------------------------------------
\* Properties of Trace and ExecutionPath.from_trace (checked under SpecTrace)
\* ------------------------------------------------------------------------
TraceBuilt == tr.pc \in {"trace", "path"}

TraceReturned == TraceBuilt /\ ~tr.trace.raised

InputIds(trace_data) == {trace_data[i].spanID : i \in 1..Len(trace_data)}

\* The declared parent of a raw span, if a span of the list carries that id.
DeclaredParent(trace_data, i) ==
  IF trace_data[i].parentSpanID \in InputIds(trace_data)
  THEN trace_data[i].parentSpanID ELSE None

\* The ids reached from span i by following declared parents k times.
RECURSIVE DeclaredAncestors(_, _, _)
DeclaredAncestors(trace_data, id, k) ==
  IF k = 0 \/ id = None THEN {}
  ELSE LET i == CHOOSE j \in 1..Len(trace_data) : trace_data[j].spanID = id
           p == DeclaredParent(trace_data, i)
       IN {p} \cup DeclaredAncestors(trace_data, p, k - 1)

\* A valid span list: not empty, no span id twice, no span among its own
\* declared ancestors.
ValidSpanList(trace_data) ==
  /\ trace_data # <<>>
  /\ \A i, j \in 1..Len(trace_data) :
       trace_data[i].spanID = trace_data[j].spanID => i = j
  /\ \A i \in 1..Len(trace_data) :
       trace_data[i].spanID \notin
         DeclaredAncestors(trace_data, trace_data[i].spanID, Len(trace_data))

\* The nodes of the built tree that have no parent.
TreeRoots(t) == {n \in DOMAIN t.span : t.parent[n] = None}

\* C13: for every valid span list Trace(...) returns a tree with exactly one
\* root, from which every input span is reached; a span whose declared parent
\* id is carried by an input span has that span as parent, and a span whose
\* parent id is absent or carried by no input span is a root of the built
\* forest (the trace root, or a child of the virtual root) and no error is
\* raised.
C13_OneRootParentsAsDeclared ==
  (TraceBuilt /\ ValidSpanList(tr.trace_data)) =>
    /\ ~tr.trace.raised
    /\ LET t == tr.trace
           data == tr.trace_data
       IN /\ TreeRoots(t) = {t.root}
          /\ \A i \in 1..Len(data) :
               /\ data[i].spanID \in DOMAIN t.span
               /\ t.root \in iter_path_reverse(t.parent, data[i].spanID)
               /\ IF DeclaredParent(data, i) # None
                  THEN t.parent[data[i].spanID] = data[i].parentSpanID
                  ELSE \/ t.root = data[i].spanID
                       \/ t.root = VirtualId /\ t.parent[data[i].spanID] = VirtualId

\* C13 witness: a valid list of three spans in which a child arrives before
\* its parent and another span names a parent no span carries; the tree is
\* built.
C13_Witness ==
  /\ TraceReturned
  /\ ValidSpanList(tr.trace_data)
  /\ Len(tr.trace_data) = 3
  /\ \E i, j \in 1..3 :
       /\ i < j
       /\ tr.trace_data[i].parentSpanID = tr.trace_data[j].spanID
       /\ tr.trace.parent[tr.trace_data[i].spanID] = tr.trace_data[j].spanID
  /\ \E i \in 1..3 :
       /\ tr.trace_data[i].parentSpanID = MissingId
       /\ tr.trace.parent[tr.trace_data[i].spanID] = VirtualId

\* The spans that are parentless after linking: the trace root, or the
\* children of the virtual root.
Parentless(t) ==
  {n \in DOMAIN t.span \ {VirtualId} : t.parent[n] \in {None, VirtualId}}

\* C14: with exactly one parentless span after linking that span is the trace
\* root and there is no virtual root; with two or more the trace root is a new
\* span from the minimum start to the maximum end of the parentless spans whose
\* children are exactly those spans.  For a valid list the parentless spans are
\* those that declare no parent carried by an input span.
C14_RootOrVirtualRoot ==
  TraceReturned =>
    LET t == tr.trace
        data == tr.trace_data
        roots == Parentless(t)
    IN /\ ValidSpanList(data) =>
            roots = {data[i].spanID : i \in {j \in 1..Len(data) :
                                               DeclaredParent(data, j) = None}}
       /\ Cardinality(roots) = 1 =>
            /\ t.root \in roots
            /\ VirtualId \notin DOMAIN t.span
            /\ t.parent[t.root] = None
       /\ Cardinality(roots) >= 2 =>
            /\ t.root = VirtualId
            /\ t.span[VirtualId].name = "root"
            /\ t.span[VirtualId].start_time = Min({t.span[r].start_time : r \in roots})
            /\ t.span[VirtualId].end_time = Max({t.span[r].end_time : r \in roots})
            /\ {t.children[VirtualId][i] : i \in 1..Len(t.children[VirtualId])} = roots
            /\ Len(t.children[VirtualId]) = Cardinality(roots)
            /\ \A n \in DOMAIN t.span : t.parent[n] = VirtualId <=> n \in roots

\* C14 witness: two parentless spans, the later one ending first, under a
\* virtual root that ends with the earlier one (scenario B with the ends
\* swapped).
C14_Witness ==
  /\ TraceReturned
  /\ tr.trace.root = VirtualId
  /\ Len(tr.trace.children[VirtualId]) = 2
  /\ LET x == tr.trace.children[VirtualId][1]
         y == tr.trace.children[VirtualId][2]
     IN /\ tr.trace.span[x].start_time < tr.trace.span[y].start_time
        /\ tr.trace.span[x].end_time > tr.trace.span[y].end_time
        /\ tr.trace.span[VirtualId].start_time = tr.trace.span[x].start_time
        /\ tr.trace.span[VirtualId].end_time = tr.trace.span[x].end_time

PathExtracted == tr.pc = "path"

\* C15: a span list in which two spans carry the same span id is rejected:
\* once Trace(...) and ExecutionPath.from_trace(...) have run on it, one of
\* them has raised, so no execution path exists for it.
C15_DuplicateSpanIdsRejected ==
  (PathExtracted /\ \E i, j \in 1..Len(tr.trace_data) :
                      i # j /\ tr.trace_data[i].spanID = tr.trace_data[j].spanID)
    => tr.exec_path.raised

\* ExecutionPath(trace_id=..., states=...) has returned or raised (SpecExecPath).
PathBuilt == ep.pc = "built"

\* The places of a state list that carry a span id: <<i, 0>> for the i-th
\* state, <<i, k>> for its k-th action.
IdPlaces(states) ==
  {<<i, 0>> : i \in 1..Len(states)}
    \cup UNION {{<<i, k>> : k \in 1..Len(states[i].actions)} : i \in 1..Len(states)}

IdAt(states, pl) ==
  IF pl[2] = 0 THEN states[pl[1]].spanId ELSE states[pl[1]].actions[pl[2]].spanId

\* C16: constructing an ExecutionPath fails exactly when some span id is
\* carried by two places among its states and actions (two states, two
\* actions, or a state and an action), so the span ids of every instance are
\* pairwise distinct.
C16_DistinctSpanIds ==
  PathBuilt =>
    LET places == IdPlaces(ep.states)
        Clash == \E p, q \in places :
                   p # q /\ IdAt(ep.states, p) = IdAt(ep.states, q)
    IN /\ ep.res.raised <=> Clash
       /\ ~ep.res.raised =>
            /\ ep.res.states = ep.states
            /\ \A p, q \in IdPlaces(ep.res.states) :
                 p # q => IdAt(ep.res.states, p) # IdAt(ep.res.states, q)

\* C16 witness: the states have distinct ids and each state's actions have
\* distinct ids, an action carries the id of a state, and the construction
\* raised.
C16_Witness ==
  /\ PathBuilt
  /\ ep.res.raised
  /\ Len(ep.states) = 2
  /\ ep.states[1].spanId # ep.states[2].spanId
  /\ Len(ep.states[1].actions) = 1
  /\ ep.states[2].actions = <<>>
  /\ ep.states[1].actions[1].spanId = ep.states[2].spanId

\* The proper ancestors of a node of the built tree.
ProperAncestors(t, n) == iter_path_reverse(t.parent, n) \ {n}

\* The State candidates of a level-order visit with ancestor exclusion: a node
\* is chosen iff its name is not ignored and no node above it was chosen,
\* that is iff it is the topmost included node of its path from the root.
LevelOrderCandidates(t) ==
  {n \in DOMAIN t.span :
     /\ should_include_node(t, n)
     /\ \A a \in ProperAncestors(t, n) : ~should_include_node(t, a)}

\* The spans exec_path_from_trace makes State candidates.
CandidateSpans(t) ==
  {state_candidates(t)[i].state_span : i \in 1..Len(state_candidates(t))}

\* C17 (as stated): the State candidates are the nodes a level-order visit
\* with ancestor exclusion chooses, for every tree shape and naming.
C17_LevelOrderAncestorExclusion ==
  PathExtracted => CandidateSpans(tr.trace) = LevelOrderCandidates(tr.trace)

\* Position of x in a sequence without repetition.
IndexOf(s, x) == CHOOSE i \in 1..Len(s) : s[i] = x

\* C17 (amended): a node is a State candidate iff its name is not ignored and
\* it is a child of a child of the trace root named "LangGraph"; candidates are
\* ordered by the position of their LangGraph node among the root's children,
\* then by their position among its children, each once; the states of the
\* path are candidates, in that order.
C17_CandidatesAreLangGraphChildren ==
  PathExtracted =>
    LET t == tr.trace
        cands == state_candidates(t)
        IsCand(n) == /\ should_include_node(t, n)
                     /\ t.parent[n] # None
                     /\ t.span[t.parent[n]].name = "LangGraph"
                     /\ t.parent[t.parent[n]] = t.root
        Pos(n) == << IndexOf(t.children[t.root], t.parent[n]),
                     IndexOf(t.children[t.parent[n]], n) >>
    IN /\ CandidateSpans(t) = {n \in DOMAIN t.span : IsCand(n)}
       /\ \A i, j \in 1..Len(cands) :
            i < j =>
              LET a == Pos(cands[i].state_span)
                  b == Pos(cands[j].state_span)
              IN a[1] < b[1] \/ (a[1] = b[1] /\ a[2] < b[2])
       /\ ~tr.exec_path.raised =>
            \E pick \in SUBSET (1..Len(cands)) :
              LET Picked(i) == i \in pick
                  idx == SelectSeq([i \in 1..Len(cands) |-> i], Picked)
              IN [i \in 1..Len(idx) |-> cands[idx[i]].state_span]
                   = [i \in 1..Len(tr.exec_path.states) |->
                        tr.exec_path.states[i].spanId]

\* C17 witness: the root is an included node, so a level-order visit would
\* choose it alone, and the path has a state two levels below it, under a
\* LangGraph node.
C17_Witness ==
  /\ PathExtracted
  /\ ~tr.exec_path.raised
  /\ should_include_node(tr.trace, tr.trace.root)
  /\ LevelOrderCandidates(tr.trace) = {tr.trace.root}
  /\ Len(tr.exec_path.states) >= 1
  /\ tr.trace.parent[tr.trace.parent[tr.exec_path.states[1].spanId]] = tr.trace.root

\* The included leaves strictly below a node, from the parent links.
IncludedLeavesBelow(t, n) ==
  {d \in DOMAIN t.span :
     /\ d # n
     /\ n \in iter_path_reverse(t.parent, d)
     /\ should_include_node(t, d)
     /\ \A m \in DOMAIN t.span : t.parent[m] # d}

\* C18: the actions of every State of an extracted path are exactly the leaf
\* descendants of its span whose name is not ignored, each once; every State
\* has at least one action, and a candidate without such a leaf is no State.
C18_ActionsAreIncludedLeaves ==
  (PathExtracted /\ ~tr.exec_path.raised) =>
    LET t == tr.trace
        states == tr.exec_path.states
    IN /\ \A i \in 1..Len(states) :
            LET acts == states[i].actions
            IN /\ {acts[k].spanId : k \in 1..Len(acts)}
                    = IncludedLeavesBelow(t, states[i].spanId)
               /\ Len(acts) = Cardinality(IncludedLeavesBelow(t, states[i].spanId))
               /\ Len(acts) >= 1
               /\ \A k \in 1..Len(acts) : acts[k].name = t.span[acts[k].spanId].name
       /\ \A n \in CandidateSpans(t) :
            (\E i \in 1..Len(states) : states[i].spanId = n)
              <=> IncludedLeavesBelow(t, n) # {}

\* C18 witness: a State whose only action lies two levels below it, under an
\* included span that is no leaf and no action.
C18_Witness ==
  /\ PathExtracted
  /\ ~tr.exec_path.raised
  /\ Len(tr.exec_path.states) = 1
  /\ LET s == tr.exec_path.states[1]
     IN /\ Len(s.actions) = 1
        /\ tr.trace.parent[s.actions[1].spanId] # s.spanId
        /\ should_include_node(tr.trace, tr.trace.parent[s.actions[1].spanId])

\* ------------------------------------------------------------------------
\* Properties of the NL judge protocol (checked under SpecNL)
\* ------------------------------------------------------------------------
PhaseRank(phase) ==
  CASE phase = "INIT" -> 1
    [] phase = "STEP" -> 2
    [] phase = "VERIFY" -> 3

CallsOf(calls, phase) == {i \in 1..Len(calls) : calls[i].phase = phase}

\* The STEP calls whose response was accepted, in call order.
AcceptedSteps(calls) ==
  LET Accepted(c) == c.phase = "STEP" /\ c.accepted
  IN SelectSeq(calls, Accepted)

\* C19: the judge calls of an NL check are INIT calls, then STEP calls, then
\* VERIFY; VERIFY is called at most once, exactly once when the check has
\* returned, and only after the fold has ended (an update was accepted for
\* every action, or the last accepted update terminated early); the returned
\* result carries the satisfied and explanation of the VERIFY response and in
\* its info the updates of all accepted STEP responses, in order.
C19_InitStepsVerify ==
  nl.pc # "off" =>
    LET calls == nl.calls
        steps == AcceptedSteps(calls)
        all == Positions(nl.shape)
        verifies == CallsOf(calls, "VERIFY")
    IN /\ \A i, j \in 1..Len(calls) :
            i < j => PhaseRank(calls[i].phase) <= PhaseRank(calls[j].phase)
       /\ Cardinality(verifies) <= 1
       /\ nl.pc = "done" <=> Cardinality(verifies) = 1
       /\ Len(steps) <= Len(all)
       /\ \A i \in 1..Len(steps) : steps[i].span = all[i]
       /\ verifies # {} =>
            /\ \E i \in CallsOf(calls, "INIT") : calls[i].accepted
            /\ \/ Len(steps) = Len(all)
               \/ /\ Len(steps) >= 1
                  /\ nl.config_early_termination
                  /\ steps[Len(steps)].early_termination
       /\ nl.pc = "done" =>
            LET v == calls[CHOOSE i \in verifies : TRUE]
                updates == nl.result.info.updates
            IN /\ nl.result.satisfied = v.satisfied
               /\ nl.result.explanation = v.explanation
               /\ Len(updates) = Len(steps)
               /\ \A i \in 1..Len(steps) :
                    /\ updates[i].span_id = steps[i].span
                    /\ updates[i].from = steps[i].n
                    /\ updates[i].early_termination
                         = (nl.config_early_termination /\ steps[i].early_termination)

\* C19 witness: a check of a path with two actions has returned after an INIT
\* response and a STEP response were rejected, both actions were folded and
\* VERIFY was the last call.
C19_Witness ==
  /\ nl.pc = "done"
  /\ Len(Positions(nl.shape)) = 2
  /\ Len(nl.result.info.updates) = 2
  /\ \E i \in CallsOf(nl.calls, "INIT") : ~nl.calls[i].accepted
  /\ \E i \in CallsOf(nl.calls, "STEP") : ~nl.calls[i].accepted
  /\ nl.calls[Len(nl.calls)].phase = "VERIFY"

\* C20: INIT repeats its judge call until the schema text parses to a
\* non-empty JSON object: a response is accepted iff it does, the accepted
\* response is the last INIT call, the schema, instructions and success
\* condition kept are those of that response, and no error comes of a schema
\* that is empty, malformed or no object.
C20_InitAcceptsNonEmptyObjectOnly ==
  nl.pc # "off" =>
    /\ \A i \in CallsOf(nl.calls, "INIT") :
         LET parsed == json_loads(nl.calls[i].text)
         IN /\ nl.calls[i].accepted <=> (parsed.type = "dict" /\ parsed.keys # {})
            /\ nl.calls[i].accepted =>
                 /\ \A j \in CallsOf(nl.calls, "INIT") : j <= i
                 /\ nl.schema = [from |-> i, value |-> parsed]
                 /\ nl.instructions.from = i
                 /\ nl.success_condition.from = i
    /\ ~(nl.pc = "raised" /\ nl.exc = "AttributeError")

\* ------------------------------------------------------------------------
\* Properties of the judge completion call (checked under SpecCompletion)
\* ------------------------------------------------------------------------
\* C21: every completion call makes at most max_attempt_number (6)
\* attempts, numbered from 1 afresh in every call, re-requests of the
\* validation loop included; an attempt follows only failed attempts of the
\* same call, the response returned is that of the call's first successful
\* attempt, and the sixth failure in a row raises instead of a 7th attempt.
C21_SixAttemptsPerCall ==
  /\ \A i \in 1..Len(cp.log) :
       /\ cp.log[i].attempt \in 1..max_attempt_number
       /\ IF i > 1 /\ cp.log[i - 1].call = cp.log[i].call
          THEN /\ ~cp.log[i - 1].ok
               /\ cp.log[i].attempt = cp.log[i - 1].attempt + 1
          ELSE /\ cp.log[i].attempt = 1
               /\ cp.log[i].call = (IF i = 1 THEN 1 ELSE cp.log[i - 1].call + 1)
  /\ cp.pc \in {"returned", "accepted"} =>
       /\ cp.log[Len(cp.log)].ok
       /\ cp.response = [call |-> cp.call, attempt |-> cp.log[Len(cp.log)].attempt]
       /\ cp.log[Len(cp.log)].call = cp.call
  /\ cp.pc = "raised" <=>
       /\ Len(cp.log) >= max_attempt_number
       /\ \A j \in 0..(max_attempt_number - 1) :
            /\ ~cp.log[Len(cp.log) - j].ok
            /\ cp.log[Len(cp.log) - j].call = cp.call
            /\ cp.log[Len(cp.log) - j].attempt = max_attempt_number - j

\* C21 witness: the first call returned on its third attempt, the loop
\* requested again, and the second call failed six times and raised.
C21_Witness ==
  /\ cp.pc = "raised"
  /\ cp.call = 2
  /\ Len(cp.log) = 9
  /\ cp.log[3] = [call |-> 1, attempt |-> 3, ok |-> TRUE]

\* ------------------------------------------------------------------------
\* Further properties of the NL judge protocol (checked under SpecNL)
\* ------------------------------------------------------------------------
\* C22: with early termination enabled, an accepted STEP response whose
\* early-termination flag is set is the last STEP call of the check (no
\* action after it, in its state or a later one, gets a call) and the next
\* judge call is VERIFY; with early termination disabled the flag is ignored:
\* a flagged response is followed by the STEP of the next action, and VERIFY
\* is called only after an accepted STEP for every action of the path.
C22_EarlyTermination ==
  nl.pc # "off" =>
    LET calls == nl.calls
        all == Positions(nl.shape)
        Flagged(i) == calls[i].phase = "STEP" /\ calls[i].accepted
                      /\ calls[i].early_termination
    IN \A i \in 1..Len(calls) :
         Flagged(i) =>
           IF nl.config_early_termination
           THEN /\ \A j \in (i + 1)..Len(calls) : calls[j].phase = "VERIFY"
                /\ i = Len(calls) => nl.pc \in {"verify", "raised"}
           ELSE /\ calls[i].span # all[Len(all)] =>
                     /\ i < Len(calls) =>
                          /\ calls[i + 1].phase = "STEP"
                          /\ calls[i + 1].span # calls[i].span
                     /\ i = Len(calls) => nl.pc \in {"step", "raised"}
                /\ CallsOf(calls, "VERIFY") # {} =>
                     \A k \in 1..Len(all) :
                       \E j \in CallsOf(calls, "STEP") :
                         calls[j].accepted /\ calls[j].span = all[k]

\* C22 witness: a check with early termination enabled of a path of two
\* states with one action each has returned; the response to the first
\* action was accepted with the flag set and no STEP was made for the second.
C22_Witness ==
  /\ nl.pc = "done"
  /\ nl.config_early_termination
  /\ nl.shape = <<1, 1>>
  /\ Len(AcceptedSteps(nl.calls)) = 1
  /\ AcceptedSteps(nl.calls)[1].early_termination

\* ------------------------------------------------------------------------
\* Further properties of ContractChecker.check (checked under SpecChecker)
\* ------------------------------------------------------------------------
\* C23: every unsatisfied requirement result in the map check returns has an
\* explanation (one of the texts the judge wrote, not None), and every INVALID
\* or UNSATISFIED ContractVerificationResults has an explanation too.
C23_UnsatisfiedResultsExplained ==
  CkReturned =>
    /\ \A rid \in DOMAIN ck.res.info :
         ~ck.res.info[rid].satisfied =>
           /\ "explanation" \in DOMAIN ck.res.info[rid]
           /\ ck.res.info[rid].explanation \in Uuids(ck.contract)
    /\ ck.res.satisfied \in {"INVALID", "UNSATISFIED"} =>
         /\ "explanation" \in DOMAIN ck.res
         /\ ck.res.explanation \in Uuids(ck.contract)

\* C29: for every contract and every filter, the map check returns has as
\* keys exactly the ids of the requirements whose type matches the filter,
\* each mapped to the result of that requirement's own check.
C29_MapOfMatchingRequirements ==
  CkReturned =>
    LET matching == {i \in 1..Len(ck.contract) : matches(ck.filter, ck.contract[i])}
    IN /\ DOMAIN ck.res.info = {ck.contract[i].uuid : i \in matching}
       /\ \A i \in matching :
            ck.res.info[ck.contract[i].uuid]
              = VerificationResults(ck.contract[i],
                                    ck.outcome[ck.contract[i].uuid] = "sat")

\* ------------------------------------------------------------------------
\* Properties of the requirement registry (checked under SpecRegistry)
\* ------------------------------------------------------------------------
\* The first class register was called with under a name.
FirstRegistered(registered, cname) ==
  registered[CHOOSE i \in 1..Len(registered) :
               /\ registered[i].name = cname
               /\ \A j \in 1..(i - 1) : registered[j].name # cname]

\* C24: after any sequence of registrations the registry maps every
\* registered name that is not a base class name to the class first
\* registered under it and has no other key; registering under a registered
\* name raises RuntimeError and leaves the registry as it was; get of an
\* unregistered name raises ValueError, get of a registered one returns its
\* class.
C24_FirstRegistrationWins ==
  reg.pc = "run" =>
    /\ DOMAIN reg.registry =
         {reg.registered[i].name : i \in 1..Len(reg.registered)} \ BaseClassNames
    /\ \A cname \in DOMAIN reg.registry :
         reg.registry[cname] = FirstRegistered(reg.registered, cname)
    /\ reg.last.op = "register" =>
         /\ reg.last.raised <=> reg.last.arg.name \in DOMAIN reg.last.before
         /\ reg.last.raised =>
              reg.last.exc = "RuntimeError" /\ reg.registry = reg.last.before
         /\ reg.last.arg.name \in BaseClassNames => reg.registry = reg.last.before
    /\ reg.last.op = "get" =>
         IF reg.last.arg \in DOMAIN reg.registry
         THEN /\ ~reg.last.result.raised
              /\ reg.last.result.class = reg.registry[reg.last.arg]
         ELSE reg.last.result.raised /\ reg.last.result.exc = "ValueError"

\* C24 witness: a second class named Precondition was registered after the
\* first and after a base class; the call raised and the registry still has
\* the first class as its only entry.
C24_Witness ==
  /\ reg.pc = "run"
  /\ Len(reg.registered) = 3
  /\ reg.registered[1] = [name |-> "Precondition", id |-> 1]
  /\ reg.registered[2].name = "BasePrecondition"
  /\ reg.last.op = "register"
  /\ reg.last.arg = [name |-> "Precondition", id |-> 2]
  /\ reg.last.raised
  /\ DOMAIN reg.registry = {"Precondition"}

\* ------------------------------------------------------------------------
\* Properties of requirement serialization (checked under SpecRoundTrip)
\* ------------------------------------------------------------------------
\* C25: dumping a requirement list and validating the dump through the
\* registry raises nothing and gives a list of the same length whose i-th
\* element has the class, uuid, name and level of the i-th original, and its
\* `on` if that is a postcondition.
C25_RoundTripPreservesRequirements ==
  reg.pc = "validated" =>
    /\ ~reg.loaded.raised
    /\ Len(reg.loaded.result) = Len(reg.requirements)
    /\ \A i \in 1..Len(reg.requirements) :
         LET orig == reg.requirements[i]
             back == reg.loaded.result[i]
         IN /\ back.class = orig.class
            /\ back.uuid = orig.uuid
            /\ back.name = orig.name
            /\ back.level = orig.level
            /\ orig.class \in PostconditionClasses =>
                 "on" \in DOMAIN back /\ back.on = orig.on

\* C25 witness: a list of a SHOULD postcondition on the conversation followed
\* by a MUST multi-stage pathcondition with another uuid went through the
\* round trip.
C25_Witness ==
  /\ reg.pc = "validated"
  /\ Len(reg.requirements) = 2
  /\ reg.requirements[1].class = "Postcondition"
  /\ reg.requirements[1].level = "SHOULD"
  /\ reg.requirements[1].on = "conversation"
  /\ reg.requirements[2].class = "MultiStagePathcondition"
  /\ reg.requirements[2].level = "MUST"
  /\ reg.requirements[2].uuid # reg.requirements[1].uuid
  /\ reg.dump[1].level = "should"

\* ------------------------------------------------------------------------
\* Properties of attribute decoding (checked under SpecAttributes)
\* ------------------------------------------------------------------------
IsPrefix(p, q) == Len(p) <= Len(q) /\ \A i \in 1..Len(p) : p[i] = q[i]

\* The keys of an attribute list do not conflict in shape: no key occurs
\* twice or continues another key, and where two keys part the segments are
\* both list indexes or both map keys.
NoShapeConflict(items) ==
  \A i, j \in 1..Len(items) :
    i # j =>
      LET p == path_of(items[i].key)
          q == path_of(items[j].key)
      IN /\ ~IsPrefix(p, q)
         /\ \A k \in 1..Len(p) :
              (k <= Len(q) /\ \A m \in 1..(k - 1) : p[m] = q[m]) =>
                p[k].type = q[k].type

Missing == [type |-> "missing"]

\* The value found in a hierarchy by following a path: list indexes through
\* lists, map keys through dicts.
RECURSIVE Lookup(_, _)
Lookup(node, path) ==
  IF path = << >> THEN node
  ELSE LET key == Head(path)
       IN IF key.type = "int"
          THEN IF node.type = "list" /\ key.n + 1 \in DOMAIN node.l
               THEN Lookup(node.l[key.n + 1], Tail(path)) ELSE Missing
          ELSE IF node.type = "dict" /\ key.s \in DOMAIN node.d
               THEN Lookup(node.d[key.s], Tail(path)) ELSE Missing

\* C26: for every attribute list whose keys do not conflict in shape,
\* recreate_attributes_hierarchy returns a hierarchy in which the value of
\* every attribute is found at the path of its dotted key (integer segments
\* index lists, other segments are map keys), whether the first segment is
\* an integer or not, and the list elements no attribute reaches are None.
C26_ValuesAtDottedPaths ==
  (at.pc = "returned" /\ at.fn = "recreate_attributes_hierarchy"
   /\ NoShapeConflict(at.items)) =>
    \A i \in 1..Len(at.items) :
      LET path == path_of(at.items[i].key)
      IN /\ Lookup(at.result, path) = inserted_value(at.items[i].value)
         /\ \A k \in 1..Len(path) :
              path[k].type = "int" =>
                LET list == Lookup(at.result, SubSeq(path, 1, k - 1))
                IN /\ list.type = "list"
                   /\ \A e \in 1..Len(list.l) :
                        \/ list.l[e] = PyNone
                        \/ \E j \in 1..Len(at.items) :
                             IsPrefix(Append(SubSeq(path, 1, k - 1), PyInt(e - 1)),
                                      path_of(at.items[j].key))

\* C27: attribute_value of a string-valued attribute is the parsed JSON value
\* when the string is a JSON document and the raw string when it is not.
C27_StringDecodedIffValidJson ==
  (at.pc = "returned" /\ at.fn = "attribute_value"
   /\ "value" \in DOMAIN at.attribute
   /\ "stringValue" \in DOMAIN at.attribute.value) =>
    LET text == at.attribute.value.stringValue
    IN at.result = IF json_parse(text).valid THEN json_parse(text).value
                   ELSE PyStr(text)

\* ------------------------------------------------------------------------
\* Properties of Trace._analyze (checked under SpecAnalyze)
\* ------------------------------------------------------------------------
\* The value a field has in the first of the scanned spans that provides one.
FirstProvided(values) ==
  LET given == {i \in 1..Len(values) : values[i] # None}
  IN IF given = {} THEN None
     ELSE values[CHOOSE i \in given : \A j \in given : i <= j]

\* C28: after the first pass of _analyze each of project name, run id,
\* specification id, scenario id and framework guess has the value of the
\* first scanned span, in list order, that provides one: a later span of the
\* scan does not overwrite a field that is set.
C28_FirstPassFirstWins ==
  an.pc = "returned" =>
    LET scanned == SubSeq(an.raw_trace, 1, an.res.scanned)
        Values(field) == [i \in 1..Len(scanned) |-> scanned[i][field]]
        guesses == [i \in 1..Len(scanned) |->
                      IF Framework_from_name(scanned[i].otel_scope_name) = "UNKNOWN"
                      THEN None
                      ELSE Framework_from_name(scanned[i].otel_scope_name)]
    IN /\ \A field \in {"project_name", "run_id", "specifications_id", "scenario_id"} :
            an.res.first_pass[field] = FirstProvided(Values(field))
       /\ an.res.first_pass.framework
            = (IF FirstProvided(guesses) = None THEN "UNKNOWN"
               ELSE FirstProvided(guesses))

\* ------------------------------------------------------------------------
\* Further properties of the NL judge protocol (checked under SpecNL)
\* ------------------------------------------------------------------------
\* C30: the STEP calls of a check are a sequential fold over the actions in
\* path order: a STEP call made after k - 1 accepted updates is for the k-th
\* action and is rendered with the result of update k - 1 as running state
\* (with the INIT schema for k = 1), re-requests included; when no update
\* terminated early and the loops are over, every action has exactly one
\* accepted update, in path order.
C30_SequentialFold ==
  nl.pc # "off" =>
    LET calls == nl.calls
        all == Positions(nl.shape)
        AcceptedBefore(j) ==
          Cardinality({i \in 1..(j - 1) : calls[i].phase = "STEP" /\ calls[i].accepted})
    IN /\ \A j \in CallsOf(calls, "STEP") :
            LET k == AcceptedBefore(j) + 1
            IN /\ k <= Len(all)
               /\ calls[j].span = all[k]
               /\ calls[j].accepted => nl.updates[k].from = j
               /\ IF k = 1
                  THEN /\ calls[j].schema = nl.schema
                       /\ calls[nl.schema.from].phase = "INIT"
                       /\ calls[nl.schema.from].accepted
                  ELSE calls[j].schema = [from |-> nl.updates[k - 1].from,
                                          value |-> nl.updates[k - 1].result]
       /\ (nl.pc \in {"verify", "done"}
           /\ \A i \in 1..Len(nl.updates) : ~nl.updates[i].early_termination) =>
            /\ Len(nl.updates) = Len(all)
            /\ \A k \in 1..Len(all) :
                 /\ nl.updates[k].span_id = all[k]
                 /\ Cardinality({j \in CallsOf(calls, "STEP") :
                                   calls[j].accepted /\ calls[j].span = all[k]}) = 1

\* C30 witness: a returned check of a path with two actions in which the
\* STEP for the second action was requested twice, both times with the
\* result of the first update, and both actions have their update.
C30_Witness ==
  /\ nl.pc = "done"
  /\ Len(Positions(nl.shape)) = 2
  /\ Len(nl.updates) = 2
  /\ \E i, j \in CallsOf(nl.calls, "STEP") :
       /\ i < j
       /\ nl.calls[i].span = Positions(nl.shape)[2]
       /\ ~nl.calls[i].accepted
       /\ nl.calls[j].accepted
       /\ nl.calls[i].schema = nl.calls[j].schema
       /\ nl.calls[j].schema.from = nl.updates[1].from

\* ------------------------------------------------------------------------
\* Properties of the STEP validation loop (checked under SpecNL)
\* ------------------------------------------------------------------------
\* A STEP response is shape-valid for a schema: it parses to an object that
\* has every key of the schema.
ShapeValid(schema, text) ==
  /\ json_loads(text).type = "dict"
  /\ schema.keys \subseteq json_loads(text).keys

\* C31: in a fold whose INIT accepted an object as schema, every update of
\* the history holds an object with every key of the schema, and a STEP
\* response that is not shape-valid is not appended and is requested again:
\* the fold does not end on it with an error of its own.
C31_UpdatesCoverSchema ==
  (nl.pc # "off" /\ nl.schema \in [from : Nat, value : [type : {"dict"}, keys : SUBSET {"k"}, items : SUBSET {"k"}, len : Nat]]) =>
    /\ \A i \in 1..Len(nl.updates) :
         /\ nl.updates[i].result.type = "dict"
         /\ nl.schema.value.keys \subseteq nl.updates[i].result.keys
    /\ \A i \in CallsOf(nl.calls, "STEP") :
         ~ShapeValid(nl.schema.value, nl.calls[i].text) =>
           /\ ~nl.calls[i].accepted
           /\ i < Len(nl.calls) =>
                /\ nl.calls[i + 1].phase = "STEP"
                /\ nl.calls[i + 1].span = nl.calls[i].span
           /\ i = Len(nl.calls) => nl.pc = "step" \/ (nl.pc = "raised" /\ nl.exc = "RetryError")

\* ------------------------------------------------------------------------
\* Termination of an NL check (checked under SpecNLLive)
\* ------------------------------------------------------------------------
\* C32: an NL check over a finite execution path whose judge calls all
\* succeed within their attempt cap, and whose judge gives a valid response
\* after finitely many invalid ones, eventually returns a VerificationResult:
\* every run ends with the result, or with the RetryError of a judge call
\* that used up its attempts.
C32_EventuallyReturns ==
  <>(\/ nl.pc = "done" /\ nl.result.satisfied \in BOOLEAN
     \/ nl.pc = "raised" /\ nl.exc = "RetryError")

\* ------------------------------------------------------------------------
\* Properties of gathered NL checks (checked under SpecFolds)
\* ------------------------------------------------------------------------
\* The checker that results from giving a checker the responses one by one,
\* with nothing else running.
RECURSIVE Replay(_, _, _, _)
Replay(checker, lists, n, responses) ==
  IF responses = << >> THEN [checker |-> checker, lists |-> lists]
  ELSE LET next == fold(checker, lists, n, Head(responses))
       IN Replay(next.checker, next.lists, n, Tail(responses))

\* A check run alone on the path with the responses the judge gave it.
Alone(self) ==
  Replay(NLRequirementChecker(self), [c \in Checkers |-> << >>], nl.n, nl.responses[self])

\* C33: however the gathered checks interleave at their judge calls, each
\* check's position, schema, instructions, update history and result are
\* those of the same check run alone with the same judge responses.
C33_FoldsShareNoState ==
  nl.pc = "folds" =>
    \A self \in Checkers :
      LET alone == Alone(self)
          checker == nl.checker[self]
      IN /\ checker.pc = alone.checker.pc
         /\ checker.pos = alone.checker.pos
         /\ checker.schema = alone.checker.schema
         /\ checker.instructions = alone.checker.instructions
         /\ nl.lists[checker.updates] = alone.lists[alone.checker.updates]
         /\ checker.result = alone.checker.result

\* C33 witness: both checks are between two steps, each with one update of
\* its own in its history.
C33_Witness ==
  /\ nl.pc = "folds"
  /\ \A self \in Checkers :
       /\ nl.checker[self].pc = "step"
       /\ Len(nl.lists[nl.checker[self].updates]) = 1
       /\ nl.lists[nl.checker[self].updates][1].reasoning = self

\* ------------------------------------------------------------------------
\* The short-circuit of the first pass (checked under SpecAnalyze)
\* ------------------------------------------------------------------------
\* The first loop of _analyze run over the whole span list, without the
\* break.
RECURSIVE FullScan(_, _)
FullScan(raw_trace, info) ==
  IF raw_trace = << >> THEN info
  ELSE FullScan(Tail(raw_trace), analyze_span(info, Head(raw_trace)))

\* C34: the first pass stops before the end of the span list only when
\* project name, run id, specification id, scenario id and framework guess
\* have all been found, and the metadata it yields is that of the same scan
\* over the full list.
C34_ShortCircuitOnlyWhenComplete ==
  an.pc = "returned" =>
    /\ an.res.scanned < Len(an.raw_trace) =>
         /\ \A field \in {"project_name", "run_id", "specifications_id", "scenario_id"} :
              an.res.first_pass[field] # None
         /\ an.res.first_pass.framework # "UNKNOWN"
    /\ an.res.first_pass = FullScan(an.raw_trace, TraceInfo)

\* ------------------------------------------------------------------------
\* The status after gating (checked under SpecChecker)
\* ------------------------------------------------------------------------
\* C35: with the filter PATHCONDITIONS | POSTCONDITIONS the status check
\* returns is UNSATISFIED if and only if some MUST pathcondition or
\* postcondition is unsatisfied, SATISFIED otherwise and never INVALID,
\* whether or not the contract has preconditions.
C35_StatusAfterGating ==
  (CkReturned /\ ck.filter = Condition_PATH_POST) =>
    /\ ck.res.satisfied # "INVALID"
    /\ ck.res.satisfied = "UNSATISFIED"
         <=> MustUnsat(ck.contract, ck.outcome, {"pathcondition", "postcondition"})
    /\ ck.res.satisfied = "SATISFIED"
         <=> ~MustUnsat(ck.contract, ck.outcome, {"pathcondition", "postcondition"})

\* ------------------------------------------------------------------------
\* Completion order of the gathered checks (checked under SpecChecker)
\* ------------------------------------------------------------------------
\* C36: the status and the map check returns are the same whichever of the
\* gathered requirement checks completes first, and the map associates each
\* requirement id it holds with the result of that requirement's own check.
C36_CompletionOrderIrrelevant ==
  CkReturned =>
    LET reqs == group(ck.contract, ck.filter)
    IN /\ \A first \in 1..Len(reqs) :
            check(ck.contract, ck.filter, ck.outcome, first) = ck.res
       /\ \A i \in 1..Len(ck.contract) :
            ck.contract[i].uuid \in DOMAIN ck.res.info =>
              ck.res.info[ck.contract[i].uuid]
                = VerificationResults(ck.contract[i],
                                      ck.outcome[ck.contract[i].uuid] = "sat")
       /\ \A i \in 1..Len(reqs) : reqs[i].uuid \in DOMAIN ck.res.info

\* The first half of C36 alone: the returned status and map do not depend on
\* which check completes first.
OrderIndependent ==
  CkReturned =>
    \A first \in 1..Len(group(ck.contract, ck.filter)) :
      check(ck.contract, ck.filter, ck.outcome, first) = ck.res

\* A call in which the last of three gathered checks completed first.
LastCompletedFirst ==
  CkReturned /\ ck.first = 3 /\ Len(group(ck.contract, ck.filter)) = 3

\* ------------------------------------------------------------------------
\* The execution path under gathered NL checks (checked under SpecFolds)
\* ------------------------------------------------------------------------
\* C37: an NL check does not modify the execution path it is given: at every
\* point of every check the info of each action (the attributes dict of its
\* span) is what it was before the checks started.
C37_PathNotModified ==
  nl.pc = "folds" => \A a \in 1..nl.n : nl.info[a] = nl.before[a]

\* ------------------------------------------------------------------------
\* The guard of step (checked under SpecNL)
\* ------------------------------------------------------------------------
\* C38: once INIT has completed every STEP call proceeds to its judge call:
\* a check never ends with the RuntimeError 'You have to call init first'
\* after an INIT response was accepted, whatever schema and instructions
\* that response held.
C38_GuardOnlyBeforeInit ==
  (nl.pc = "raised" /\ nl.exc = "RuntimeError") =>
    ~\E i \in CallsOf(nl.calls, "INIT") : nl.calls[i].accepted

\* ------------------------------------------------------------------------
\* Certification per message (checked under SpecSplit)
\* ------------------------------------------------------------------------
\* The trace ids of a span list in order of first occurrence.
RECURSIVE TraceIdsOf(_, _)
TraceIdsOf(spans, seen) ==
  IF spans = << >> THEN << >>
  ELSE IF Head(spans).traceId \in seen THEN TraceIdsOf(Tail(spans), seen)
  ELSE << Head(spans).traceId >>
         \o TraceIdsOf(Tail(spans), seen \cup {Head(spans).traceId})

\* What one message asks to certify: per trace id of the message, in order
\* of first occurrence, the spans of the message that carry it.
GroupsOf(msg) ==
  LET spans == preprocess_spans(parse_span(msg).span_data)
      ids == TraceIdsOf(spans, {})
      Of(tid) == LET Has(s) == s.traceId = tid IN SelectSeq(spans, Has)
  IN [i \in 1..Len(ids) |-> [trace_id |-> ids[i], spans |-> Of(ids[i])]]

\* C39: the certifications main runs after a poll are those of one message:
\* one certify_span call per trace id of that message, each over exactly the
\* message's spans of that trace id and no span of another message; and
\* every write of a certification replaces whatever certificate an earlier
\* message left under the trace's key.
C39_CertificationPerMessage ==
  /\ [](\A p \in Consumers :
          main[p].pc = "certify" =>
            \E msg \in topic :
              \E k \in 1..Len(GroupsOf(msg)) :
                main[p].batch = SubSeq(GroupsOf(msg), k, Len(GroupsOf(msg))))
  /\ [][\A p \in Consumers :
          /\ (Poll(p) /\ main'[p].pc = "certify") =>
               \E msg \in topic : main'[p].batch = GroupsOf(msg)
          /\ (Return(p) /\ main'[p].pc = "certify") => main'[p].batch = Tail(main[p].batch)
          /\ (Write(p) \/ WriteEmpty(p)) =>
               /\ cache'[write_key(cur(p).trace_id)].value = cert'[p].payload
               /\ \A k \in DOMAIN cache' \ {write_key(cur(p).trace_id)} :
                    k \in DOMAIN cache /\ cache'[k] = cache[k]]_vars

\* C39 witness: after the second poll the certification of span b alone, the
\* part of trace TID1 the second message holds, is about to write its
\* certificate while the cache holds a different one for the trace, left by
\* the certification of the first message.
C39_Witness ==
  /\ main["c1"].pc = "certify"
  /\ main["c1"].polls = 2
  /\ cert["c1"].pc = "write"
  /\ cur("c1").trace_id = TID1
  /\ Len(cur("c1").spans) = 1
  /\ cur("c1").spans[1].spanId = "b"
  /\ write_key(TID1) \in DOMAIN cache
  /\ cache[write_key(TID1)].value # cert["c1"].payload

\* ------------------------------------------------------------------------
\* The contracts of a certificate (checked under Spec)
\* ------------------------------------------------------------------------
\* The contracts of the specification whose MUST preconditions were all found
\* satisfied by the gate of p's certification.
GatedIn(p) ==
  {specification[c].uuid : c \in
     {c \in 1..Len(specification) :
        \A i \in 1..Len(specification[c].requirements) :
          LET req == specification[c].requirements[i]
          IN (req.type = "precondition" /\ req.level = "must") =>
               /\ req.uuid \in DOMAIN cert[p].preconditions
               /\ cert[p].preconditions[req.uuid] = "sat"}}

====
